---- MODULE Spec2Model ----
(***************************************************************************)
(* Model of orbit_base::Future / Promise / SharedState                     *)
(* (src/src/OrbitBase/include/OrbitBase/Future.h).                         *)
(*                                                                         *)
(* An absl::MutexLock scope with a single statement is one atomic step     *)
(* that needs the mutex to be free; a longer scope holds the mutex from    *)
(* its first step to its last.                                             *)
(* Promise.h and SharedState.h are not part of the sources at hand: the    *)
(* Promise* definitions follow the design document's description of       *)
(* Promise::Set / SharedState::Fulfill.                                    *)
(*                                                                         *)
(* MainThreadExecutor (src/src/OrbitGl/MainThreadExecutor.h) is an         *)
(* abstract class: Schedule and ScheduleAfter are its code, the queue of   *)
(* actions and the run loop of the main thread that drains it follow the   *)
(* design document.                                                        *)
(***************************************************************************)
EXTENDS Integers, Sequences, FiniteSets, TLC

\* ---- bounds of the model -------------------------------------------------
NumThreads == 2
NumStates == 3
NumFutures == 2
NumConts == 2
MaxValue == 2
MaxCalls == 4
NumModules == 2

\* NumThreads threads of the application, and the main thread, which runs
\* the event loop of the executor
MainThread == NumThreads + 1
Threads == 1..MainThread
States == 1..NumStates
Futures == 1..NumFutures
Conts == 1..NumConts
Values == 1..MaxValue
\* the outcomes an ErrorMessageOr<T> can hold: a T, or one of MaxValue error
\* messages, written as negative numbers
Errors == {0 - e : e \in Values}
IsError(x) == x < 0

\* ---- program constants ---------------------------------------------------
\* enum class FutureRegisterContinuationResult
kSuccessfullyRegistered == 0
kFutureAlreadyCompleted == 1
kFutureNotValid == 2

\* enum class WaitResult { kCompleted, kTimedOut, kAborted }
kCompleted == 0
kTimedOut == 1
kAborted == 2

\* std::nullopt in SharedState<T>::result, and the empty std::shared_ptr
NoValue == 0
NoState == 0
\* absl::Mutex not held
NoThread == 0
\* std::nullopt, returned in place of a Future
NoFuture == 0

VARIABLES
  kind,           \* per SharedState: "free" (not allocated), "T" or "void"
  result,         \* SharedState<T>::result (std::optional<T>)
  finished,       \* SharedState<void>::finished
  continuations,  \* SharedState::continuations
  mutex,          \* SharedState::mutex: the thread holding it, or NoThread
  promise,        \* per SharedState: "none", "alive", "destroyed" Promise, or
                  \* "captured": moved into a function wrapper made by the executor
  handle,         \* per Future object: "unborn", "live", "dead"
  shared_state_,  \* FutureBase::shared_state_ (NoState: empty shared_ptr)
  pc,             \* per thread: position inside the member function it runs
  op,             \* per thread: the member function it runs
  self,           \* per thread: the Future object (or, for Set, the state)
  arg,            \* per thread: the continuation or value passed in
  ret,            \* per thread: the value returned
  drained,        \* per thread: continuations taken out by a fulfilment
  owner,          \* per continuation object: "caller", "state", "gone"
  invoked,        \* per continuation: number of invocations by a fulfilment
  aborted,        \* a CHECK failed (in the thread at "fatal"): the process is gone
  calls,          \* number of operations started so far
  fulfilled_with, \* history: the value each SharedState was fulfilled with
  fulfil_count,   \* history: number of fulfilments of each SharedState
  seen_finished,  \* history: IsFinished() has returned true on this state
  reg,            \* history: the SharedState each continuation was stored in
  waited,         \* history: the running call was suspended in Await
  origin,         \* history: how each Future object was constructed
  executor,       \* the MainThreadExecutor: "alive", "shutting_down" (its last
                  \* owner gone, its destructor running) or "destroyed"
  queue,          \* the actions scheduled on the executor, oldest first
  functor,        \* per SharedState of a scheduled task: the value its functor returns
  after,          \* per SharedState made by ScheduleAfter: the source SharedState
  closure,        \* per continuation made by ScheduleAfter: the SharedState of its promise
  runs,           \* history: number of times the functor of each task was called
  if_success,     \* per SharedState made by ScheduleAfterIfSuccess: TRUE
  waitjob,        \* per thread: the WaitFor / WaitForAll call it is inside of
  observed,       \* history: the argument each continuation was called with
  reply,          \* history: what a call made from inside a continuation returned
  app_pc,         \* per thread: position inside OrbitApp::OnCaptureStarted
  capture_mutex,  \* per call of OnCaptureStarted: the thread holding its absl::Mutex
  initialization_complete, \* per call of OnCaptureStarted: its local flag
  actions,        \* the function objects OrbitApp scheduled on main_thread_executor_
  main_pc,        \* the action of OrbitApp the main thread is inside of
  modules_currently_loading_, \* OrbitApp::modules_currently_loading_
  pool,           \* per function object put on thread_pool_: how many are waiting
  capture_loading_cancellation_requested_, \* the flag of OrbitApp
  load_pc,        \* the task of OnLoadCapture: "idle", "scheduled", "loading",
                  \* "cancelled", "loaded"
  cancel_pending  \* history: cancellation was requested after OnLoadCapture
                  \* returned, for the load it started

vars == <<kind, result, finished, continuations, mutex, promise, handle,
          shared_state_, pc, op, self, arg, ret, drained, owner, invoked,
          aborted, calls, fulfilled_with, fulfil_count, seen_finished, reg,
          waited, origin, executor, queue, functor, after, closure, runs,
          if_success, waitjob, observed, reply, app_pc, capture_mutex,
          initialization_complete, actions, main_pc,
          modules_currently_loading_, pool,
          capture_loading_cancellation_requested_, load_pc, cancel_pending>>

sharedVars == <<kind, result, finished, continuations>>
handleVars == <<promise, handle, shared_state_, origin>>
threadVars == <<pc, op, self, arg, ret, drained>>
histVars == <<fulfilled_with, fulfil_count, seen_finished, reg, waited>>
execVars == <<executor, queue, functor, after, closure, runs>>
captureVars == <<app_pc, capture_mutex, initialization_complete>>
loadVars == <<modules_currently_loading_, pool>>
cancelVars == <<capture_loading_cancellation_requested_, load_pc, cancel_pending>>
appVars == <<captureVars, actions, main_pc, loadVars, cancelVars>>
moreVars == <<if_success, waitjob, appVars>>
contVars == <<observed, reply>>

\* no WaitFor call, and no call made from inside a continuation
NoJob == [futures |-> {}, timeout |-> "none", abort |-> FALSE]
NoReply == [call |-> "none", ret |-> 0]

\* the executor object exists: it is alive and owned by a shared_ptr, or it
\* was constructed without one ("unmanaged": on the stack, in a unique_ptr),
\* so that weak_from_this() gives an empty weak_ptr
Exists == executor \in {"alive", "unmanaged"}

BoolToInt(b) == IF b THEN 1 ELSE 0

\* ---- SharedState ---------------------------------------------------------
\* result.has_value() for SharedState<T>, finished for SharedState<void>
HasResult(s) == IF kind[s] = "void" THEN finished[s] ELSE result[s] # NoValue

\* a count of the holders other than the Future asked
UseCount_OthersOnly(f) ==
  IF shared_state_[f] = NoState THEN 0
  ELSE Cardinality({g \in Futures : g # f /\ handle[g] = "live"
                                     /\ shared_state_[g] = shared_state_[f]})
       + (IF promise[shared_state_[f]] \in {"alive", "captured"} THEN 1 ELSE 0)

\* std::shared_ptr::use_count() of a Future's shared_state_
UseCount(f) ==
  IF shared_state_[f] = NoState THEN 0
  ELSE Cardinality({g \in Futures : handle[g] = "live"
                                     /\ shared_state_[g] = shared_state_[f]})
       + (IF promise[shared_state_[f]] \in {"alive", "captured"} THEN 1 ELSE 0)

IsValid(f) == UseCount(f) > 0

\* the next SharedState / Future object not yet constructed (0 when none)
FreshState ==
  IF \E s \in States : kind[s] = "free"
  THEN CHOOSE s \in States : kind[s] = "free" /\ \A r \in 1..(s - 1) : kind[r] # "free"
  ELSE 0

FreshFuture ==
  IF \E f \in Futures : handle[f] = "unborn"
  THEN CHOOSE f \in Futures : handle[f] = "unborn"
                              /\ \A g \in 1..(f - 1) : handle[g] # "unborn"
  ELSE 0

\* a Future object no thread is currently running a member function of
Quiet(f) ==
  {t \in Threads : pc[t] \notin {"idle", "ret"} /\ op[t] # "Set" /\ self[t] = f} = {}

\* a lock that excludes nobody (the MutexLock left out)
MutexAcquirable_NoExclusion(s) == TRUE

\* absl::MutexLock lock{&shared_state_->mutex} returns only when no other
\* thread holds the mutex
MutexAcquirable(s) == mutex[s] = NoThread

\* a MutexLock scope that is left in a later step
MutexLock(t, s) ==
  /\ MutexAcquirable(s)
  /\ mutex' = [mutex EXCEPT ![s] = t]

\* end of the MutexLock scope
MutexUnlock(t, s) == mutex' = [mutex EXCEPT ![s] = NoThread]

\* the modules of the target process (ModuleData*, told apart by file_path())
Modules == 1..NumModules

\* the function objects LoadSymbols and LoadModuleOnRemote put on thread_pool_
PoolTasks == {"load_symbols", "find_remote"} \X Modules

\* the main thread is inside no action of OrbitApp
NoAction == [name |-> "none", of |-> 0]

\* OrbitApp after construction: no capture started, no module loading, no
\* capture being loaded, nothing scheduled
AppInit ==
  /\ app_pc = [t \in Threads |-> "idle"]
  /\ capture_mutex = [t \in Threads |-> NoThread]
  /\ initialization_complete = [t \in Threads |-> FALSE]
  /\ actions = <<>>
  /\ main_pc = NoAction
  /\ modules_currently_loading_ = {}
  /\ pool = [k \in PoolTasks |-> 0]
  /\ capture_loading_cancellation_requested_ = FALSE
  /\ load_pc = "idle"
  /\ cancel_pending = FALSE

Init ==
  /\ kind = [s \in States |-> "free"]
  /\ result = [s \in States |-> NoValue]
  /\ finished = [s \in States |-> FALSE]
  /\ continuations = [s \in States |-> <<>>]
  /\ mutex = [s \in States |-> NoThread]
  /\ promise = [s \in States |-> "none"]
  /\ handle = [f \in Futures |-> "unborn"]
  /\ shared_state_ = [f \in Futures |-> NoState]
  /\ pc = [t \in Threads |-> "idle"]
  /\ op = [t \in Threads |-> "none"]
  /\ self = [t \in Threads |-> 0]
  /\ arg = [t \in Threads |-> 0]
  /\ ret = [t \in Threads |-> 0]
  /\ drained = [t \in Threads |-> <<>>]
  /\ owner = [c \in Conts |-> "caller"]
  /\ invoked = [c \in Conts |-> 0]
  /\ aborted = FALSE
  /\ calls = 0
  /\ fulfilled_with = [s \in States |-> NoValue]
  /\ fulfil_count = [s \in States |-> 0]
  /\ seen_finished = [s \in States |-> FALSE]
  /\ reg = [c \in Conts |-> NoState]
  /\ waited = [t \in Threads |-> FALSE]
  /\ origin = [f \in Futures |-> [how |-> "none", of |-> 0]]
  /\ executor = "alive"
  /\ queue = <<>>
  /\ functor = [s \in States |-> NoValue]
  /\ after = [s \in States |-> NoState]
  /\ closure = [c \in Conts |-> NoState]
  /\ runs = [s \in States |-> 0]
  /\ if_success = [s \in States |-> FALSE]
  /\ waitjob = [t \in Threads |-> NoJob]
  /\ observed = [c \in Conts |-> NoValue]
  /\ reply = [c \in Conts |-> NoReply]
  /\ AppInit


\* ---- construction, copies, moves and destruction of the handles ----------
\* orbit_base::Promise<T> promise; orbit_base::Future<T> future =
\* promise.GetFuture();  A fresh SharedState, its promise and a first future.
PromiseCtor(k) ==
  /\ ~aborted
  /\ calls < MaxCalls
  /\ calls' = calls + 1
  /\ FreshState # 0
  /\ FreshFuture # 0
  /\ kind' = [kind EXCEPT ![FreshState] = k]
  /\ promise' = [promise EXCEPT ![FreshState] = "alive"]
  /\ handle' = [handle EXCEPT ![FreshFuture] = "live"]
  /\ shared_state_' = [shared_state_ EXCEPT ![FreshFuture] = FreshState]
  /\ origin' = [origin EXCEPT ![FreshFuture] = [how |-> "promise", of |-> 0]]
  /\ UNCHANGED <<result, finished, continuations, mutex, threadVars, owner,
                 invoked, aborted, histVars>>
  /\ UNCHANGED <<execVars, moreVars, contVars>>

\* Promise<T>::GetFuture(), again: one more Future bound to the same SharedState
PromiseGetFuture(s) ==
  /\ ~aborted
  /\ calls < MaxCalls
  /\ calls' = calls + 1
  /\ promise[s] = "alive"
  /\ FreshFuture # 0
  /\ handle' = [handle EXCEPT ![FreshFuture] = "live"]
  /\ shared_state_' = [shared_state_ EXCEPT ![FreshFuture] = s]
  /\ origin' = [origin EXCEPT ![FreshFuture] = [how |-> "promise", of |-> 0]]
  /\ UNCHANGED <<sharedVars, mutex, promise, threadVars, owner, invoked,
                 aborted, histVars>>
  /\ UNCHANGED <<execVars, moreVars, contVars>>

\* Promise<T>::~Promise() without a fulfilment
PromiseDtor(s) ==
  /\ ~aborted
  /\ calls < MaxCalls
  /\ calls' = calls + 1
  /\ promise[s] = "alive"
  /\ \A t \in Threads : ~(pc[t] \notin {"idle", "ret"} /\ op[t] = "Set" /\ self[t] = s)
  /\ promise' = [promise EXCEPT ![s] = "destroyed"]
  /\ UNCHANGED <<sharedVars, mutex, handle, shared_state_, origin, threadVars, owner,
                 invoked, aborted, histVars>>
  /\ UNCHANGED <<execVars, moreVars, contVars>>

\* the constructor without result.emplace(args...)
FutureCtor_NoEmplace(v) ==
  /\ ~aborted
  /\ calls < MaxCalls
  /\ calls' = calls + 1
  /\ FreshState # 0
  /\ FreshFuture # 0
  /\ kind' = [kind EXCEPT ![FreshState] = "T"]
  /\ handle' = [handle EXCEPT ![FreshFuture] = "live"]
  /\ shared_state_' = [shared_state_ EXCEPT ![FreshFuture] = FreshState]
  /\ origin' = [origin EXCEPT ![FreshFuture] = [how |-> "value", of |-> 0]]
  /\ UNCHANGED <<result, finished, continuations, mutex, promise, threadVars,
                 owner, invoked, aborted, histVars>>
  /\ UNCHANGED <<execVars, moreVars, contVars>>

\* Future<T>::Future(Args&&...): make_shared<SharedState<T>>() and
\* result.emplace(args...)
FutureCtor(v) ==
  /\ ~aborted
  /\ calls < MaxCalls
  /\ calls' = calls + 1
  /\ FreshState # 0
  /\ FreshFuture # 0
  /\ kind' = [kind EXCEPT ![FreshState] = "T"]
  /\ result' = [result EXCEPT ![FreshState] = v]
  /\ handle' = [handle EXCEPT ![FreshFuture] = "live"]
  /\ shared_state_' = [shared_state_ EXCEPT ![FreshFuture] = FreshState]
  /\ origin' = [origin EXCEPT ![FreshFuture] = [how |-> "value", of |-> 0]]
  /\ fulfilled_with' = [fulfilled_with EXCEPT ![FreshState] = v]
  /\ fulfil_count' = [fulfil_count EXCEPT ![FreshState] = 1]
  /\ UNCHANGED <<finished, continuations, mutex, promise, threadVars, owner,
                 invoked, aborted, seen_finished, reg, waited>>
  /\ UNCHANGED <<execVars, moreVars, contVars>>

\* a default constructor that leaves the Future without a SharedState
FutureVoidCtor_Empty ==
  /\ ~aborted
  /\ calls < MaxCalls
  /\ calls' = calls + 1
  /\ FreshFuture # 0
  /\ handle' = [handle EXCEPT ![FreshFuture] = "live"]
  /\ origin' = [origin EXCEPT ![FreshFuture] = [how |-> "default", of |-> 0]]
  /\ UNCHANGED <<sharedVars, mutex, promise, shared_state_, threadVars, owner,
                 invoked, aborted, histVars>>
  /\ UNCHANGED <<execVars, moreVars, contVars>>

\* Future<void>::Future(), the default constructor: make_shared<SharedState<void>>()
\* and finished = true
FutureVoidCtor ==
  /\ ~aborted
  /\ calls < MaxCalls
  /\ calls' = calls + 1
  /\ FreshState # 0
  /\ FreshFuture # 0
  /\ kind' = [kind EXCEPT ![FreshState] = "void"]
  /\ finished' = [finished EXCEPT ![FreshState] = TRUE]
  /\ handle' = [handle EXCEPT ![FreshFuture] = "live"]
  /\ shared_state_' = [shared_state_ EXCEPT ![FreshFuture] = FreshState]
  /\ origin' = [origin EXCEPT ![FreshFuture] = [how |-> "default", of |-> 0]]
  /\ fulfil_count' = [fulfil_count EXCEPT ![FreshState] = 1]
  /\ UNCHANGED <<result, continuations, mutex, promise, threadVars, owner,
                 invoked, aborted, fulfilled_with, seen_finished, reg,
                 waited>>
  /\ UNCHANGED <<execVars, moreVars, contVars>>

\* FutureBase(const FutureBase&) = default
FutureCopy(f) ==
  /\ ~aborted
  /\ calls < MaxCalls
  /\ calls' = calls + 1
  /\ handle[f] = "live"
  /\ FreshFuture # 0
  /\ handle' = [handle EXCEPT ![FreshFuture] = "live"]
  /\ shared_state_' = [shared_state_ EXCEPT ![FreshFuture] = shared_state_[f]]
  /\ origin' = [origin EXCEPT ![FreshFuture] = [how |-> "copy", of |-> f]]
  /\ UNCHANGED <<sharedVars, mutex, promise, threadVars, owner, invoked,
                 aborted, histVars>>
  /\ UNCHANGED <<execVars, moreVars, contVars>>

\* a move that leaves the source bound to the SharedState, as a copy does
FutureMove_KeepsSource(f) ==
  /\ ~aborted
  /\ calls < MaxCalls
  /\ calls' = calls + 1
  /\ handle[f] = "live"
  /\ Quiet(f)
  /\ FreshFuture # 0
  /\ handle' = [handle EXCEPT ![FreshFuture] = "live"]
  /\ shared_state_' = [shared_state_ EXCEPT ![FreshFuture] = shared_state_[f]]
  /\ origin' = [origin EXCEPT ![FreshFuture] = [how |-> "move", of |-> f]]
  /\ UNCHANGED <<sharedVars, mutex, promise, threadVars, owner, invoked,
                 aborted, histVars>>
  /\ UNCHANGED <<execVars, moreVars, contVars>>

\* FutureBase(FutureBase&&) noexcept = default: the source is left empty
FutureMove(f) ==
  /\ ~aborted
  /\ calls < MaxCalls
  /\ calls' = calls + 1
  /\ handle[f] = "live"
  /\ Quiet(f)
  /\ FreshFuture # 0
  /\ handle' = [handle EXCEPT ![FreshFuture] = "live"]
  /\ shared_state_' = [shared_state_ EXCEPT ![FreshFuture] = shared_state_[f],
                                            ![f] = NoState]
  /\ origin' = [origin EXCEPT ![FreshFuture] = [how |-> "move", of |-> f]]
  /\ UNCHANGED <<sharedVars, mutex, promise, threadVars, owner, invoked,
                 aborted, histVars>>
  /\ UNCHANGED <<execVars, moreVars, contVars>>

\* ~FutureBase() noexcept = default
FutureDtor(f) ==
  /\ ~aborted
  /\ calls < MaxCalls
  /\ calls' = calls + 1
  /\ handle[f] = "live"
  /\ Quiet(f)
  /\ handle' = [handle EXCEPT ![f] = "dead"]
  /\ shared_state_' = [shared_state_ EXCEPT ![f] = NoState]
  /\ UNCHANGED <<origin, sharedVars, mutex, promise, threadVars, owner, invoked,
                 aborted, histVars>>
  /\ UNCHANGED <<execVars, moreVars, contVars>>

\* ---- calls ---------------------------------------------------------------
\* a thread that is not inside a member function
Free(t) == pc[t] \in {"idle", "ret"}

\* thread t enters member function o of Future object f with argument a.
\* The threads of the application are interchangeable: the free one of least
\* index is taken. The main thread is left to the event loop.
Enter(t, o, f, a) ==
  /\ ~aborted
  /\ t # MainThread
  /\ Free(t)
  /\ \A u \in 1..(t - 1) : ~Free(u)
  /\ calls < MaxCalls
  /\ calls' = calls + 1
  /\ op' = [op EXCEPT ![t] = o]
  /\ self' = [self EXCEPT ![t] = f]
  /\ arg' = [arg EXCEPT ![t] = a]
  /\ waited' = [waited EXCEPT ![t] = FALSE]

\* the member function returns r
Return(t, r) ==
  /\ pc' = [pc EXCEPT ![t] = "ret"]
  /\ ret' = [ret EXCEPT ![t] = r]

\* the member function goes on at position p
Goto(t, p) ==
  /\ pc' = [pc EXCEPT ![t] = p]
  /\ ret' = [ret EXCEPT ![t] = 0]

\* the SharedState thread t is working on: the promise's, or the one
\* this->shared_state_ points to (NoState before the thread's first call)
St(t) ==
  IF op[t] = "Set" THEN self[t]
  ELSE IF self[t] \in Futures THEN shared_state_[self[t]] ELSE NoState

\* ---- Future::IsFinished --------------------------------------------------
\* IsFinished() answering true for a Future without a SharedState
CallIsFinished_TrueWhenInvalid(t, f) ==
  /\ handle[f] = "live"
  /\ Enter(t, "IsFinished", f, 0)
  /\ IF UseCount(f) = 0
     THEN Return(t, BoolToInt(TRUE))
     ELSE Goto(t, "isfinished_read")
  /\ UNCHANGED <<sharedVars, mutex, handleVars, drained, owner, invoked,
                 aborted, fulfilled_with, fulfil_count, seen_finished, reg>>
  /\ UNCHANGED <<execVars, moreVars, contVars>>

\* if (shared_state_.use_count() == 0) return false;
CallIsFinished(t, f) ==
  /\ handle[f] = "live"
  /\ Enter(t, "IsFinished", f, 0)
  /\ IF UseCount(f) = 0
     THEN Return(t, BoolToInt(FALSE))
     ELSE Goto(t, "isfinished_read")
  /\ UNCHANGED <<sharedVars, mutex, handleVars, drained, owner, invoked,
                 aborted, fulfilled_with, fulfil_count, seen_finished, reg>>
  /\ UNCHANGED <<execVars, moreVars, contVars>>

\* absl::MutexLock lock{&mutex}; return result.has_value();  (finished)
IsFinishedRead(t) ==
  /\ ~aborted
  /\ pc[t] = "isfinished_read"
  /\ MutexAcquirable(St(t))
  /\ Return(t, BoolToInt(HasResult(St(t))))
  /\ seen_finished' = [seen_finished EXCEPT
                         ![St(t)] = seen_finished[St(t)] \/ HasResult(St(t))]
  /\ UNCHANGED <<sharedVars, mutex, handleVars, op, self, arg, drained, owner,
                 invoked, aborted, calls, fulfilled_with, fulfil_count, reg,
                 waited>>
  /\ UNCHANGED <<execVars, moreVars, contVars>>

\* the calls that run MainThreadExecutor::ScheduleAfter or
\* ScheduleAfterIfSuccess: the member functions themselves, and Future::Then
\* and Future::ThenIfSuccess, which forward to them
AfterOps == {"ScheduleAfter", "Then", "ScheduleAfterIfSuccess", "ThenIfSuccess"}

\* ---- Future::RegisterContinuation ----------------------------------------
\* a continuation object the caller still holds and no running call was given
Unused(c) ==
  /\ owner[c] = "caller"
  /\ \A t \in Threads :
       ~(~Free(t) /\ op[t] \in {"RegisterContinuation"} \cup AfterOps /\ arg[t] = c)

\* if (!this->IsValid()) return kFutureNotValid;
\* The continuation objects are interchangeable: the first unused is taken.
CallRegisterContinuation(t, f, c) ==
  /\ handle[f] = "live"
  /\ Unused(c)
  /\ \A d \in 1..(c - 1) : ~Unused(d)
  /\ Enter(t, "RegisterContinuation", f, c)
  /\ IF ~IsValid(f)
     THEN Return(t, kFutureNotValid)
     ELSE Goto(t, "register_check")
  /\ UNCHANGED <<sharedVars, mutex, handleVars, drained, owner, invoked,
                 aborted, fulfilled_with, fulfil_count, seen_finished, reg>>
  /\ UNCHANGED <<execVars, moreVars, contVars>>

\* where RegisterContinuation returns to with result r: its caller, or
\* (within ScheduleAfter) RegisterContinuationOrCallDirectly, which calls the
\* continuation itself when the future was already completed
AfterRegister(t, r) ==
  IF op[t] \in AfterOps /\ r = kFutureAlreadyCompleted
  THEN Goto(t, "after_direct")
  ELSE Return(t, r)

\* the check with its condition negated: if (!result.has_value()) return ...
RegisterContinuationCheck_Negated(t) ==
  /\ ~aborted
  /\ pc[t] = "register_check"
  /\ IF ~HasResult(St(t))
     THEN /\ MutexAcquirable(St(t))
          /\ AfterRegister(t, kFutureAlreadyCompleted)
          /\ UNCHANGED mutex
     ELSE /\ MutexLock(t, St(t))
          /\ Goto(t, "register_emplace")
  /\ UNCHANGED <<sharedVars, handleVars, op, self, arg, drained, owner,
                 invoked, aborted, calls, histVars>>
  /\ UNCHANGED <<execVars, moreVars, contVars>>

\* the check as it would be if the continuation had been moved into a local
\* object before it: the caller's object is consumed on every path
RegisterContinuationCheck_Consumes(t) ==
  /\ ~aborted
  /\ pc[t] = "register_check"
  /\ IF HasResult(St(t))
     THEN /\ MutexAcquirable(St(t))
          /\ AfterRegister(t, kFutureAlreadyCompleted)
          /\ owner' = [owner EXCEPT ![arg[t]] = "gone"]
          /\ UNCHANGED mutex
     ELSE /\ MutexLock(t, St(t))
          /\ Goto(t, "register_emplace")
          /\ UNCHANGED owner
  /\ UNCHANGED <<sharedVars, handleVars, op, self, arg, drained, invoked,
                 aborted, calls, histVars>>
  /\ UNCHANGED <<execVars, moreVars, contVars>>

\* the check as it would be if it waited for the result, the way Wait() does
\* (mutex.Await), before looking at it
RegisterContinuationCheck_Awaits(t) ==
  /\ ~aborted
  /\ pc[t] = "register_check"
  /\ HasResult(St(t))
  /\ MutexAcquirable(St(t))
  /\ AfterRegister(t, kFutureAlreadyCompleted)
  /\ UNCHANGED mutex
  /\ UNCHANGED <<sharedVars, handleVars, op, self, arg, drained, owner,
                 invoked, aborted, calls, histVars>>
  /\ UNCHANGED <<execVars, moreVars, contVars>>

\* the registration as it would be without the look at the result: the
\* continuation is stored whatever the state of the SharedState
RegisterContinuationCheck_NoCheck(t) ==
  /\ ~aborted
  /\ pc[t] = "register_check"
  /\ MutexLock(t, St(t))
  /\ Goto(t, "register_emplace")
  /\ UNCHANGED <<sharedVars, handleVars, op, self, arg, drained, owner,
                 invoked, aborted, calls, histVars>>
  /\ UNCHANGED <<execVars, moreVars, contVars>>

\* absl::MutexLock lock{&mutex};
\* if (result.has_value()) return kFutureAlreadyCompleted;
\* (RegisterContinuation called by its owner or from within ScheduleAfter)
RegisterContinuationCheck(t) ==
  /\ ~aborted
  /\ pc[t] = "register_check"
  /\ IF HasResult(St(t))
     THEN /\ MutexAcquirable(St(t))
          /\ AfterRegister(t, kFutureAlreadyCompleted)
          /\ UNCHANGED mutex
     ELSE /\ MutexLock(t, St(t))
          /\ Goto(t, "register_emplace")
  /\ UNCHANGED <<sharedVars, handleVars, op, self, arg, drained, owner,
                 invoked, aborted, calls, histVars>>
  /\ UNCHANGED <<execVars, moreVars, contVars>>

\* the registration as it would be if it kept a single continuation
\* (continuations = {continuation}) instead of appending
RegisterContinuationEmplace_Overwrite(t) ==
  /\ ~aborted
  /\ pc[t] = "register_emplace"
  /\ continuations' = [continuations EXCEPT ![St(t)] = <<arg[t]>>]
  /\ owner' = [owner EXCEPT ![arg[t]] = "state"]
  /\ reg' = [reg EXCEPT ![arg[t]] = St(t)]
  /\ AfterRegister(t, kSuccessfullyRegistered)
  /\ MutexUnlock(t, St(t))
  /\ UNCHANGED <<kind, result, finished, handleVars, op, self, arg, drained,
                 invoked, aborted, calls, fulfilled_with, fulfil_count,
                 seen_finished, waited>>
  /\ UNCHANGED <<execVars, moreVars, contVars>>

\* the registration as it would be if it put the continuation in front of
\* the ones already stored
RegisterContinuationEmplace_Front(t) ==
  /\ ~aborted
  /\ pc[t] = "register_emplace"
  /\ continuations' = [continuations EXCEPT ![St(t)] = <<arg[t]>> \o @]
  /\ owner' = [owner EXCEPT ![arg[t]] = "state"]
  /\ reg' = [reg EXCEPT ![arg[t]] = St(t)]
  /\ AfterRegister(t, kSuccessfullyRegistered)
  /\ MutexUnlock(t, St(t))
  /\ UNCHANGED <<kind, result, finished, handleVars, op, self, arg, drained,
                 invoked, aborted, calls, fulfilled_with, fulfil_count,
                 seen_finished, waited>>
  /\ UNCHANGED <<execVars, moreVars, contVars>>

\* continuations.emplace_back(std::forward<Invocable>(continuation));
\* return kSuccessfullyRegistered;
RegisterContinuationEmplace(t) ==
  /\ ~aborted
  /\ pc[t] = "register_emplace"
  /\ continuations' = [continuations EXCEPT ![St(t)] = Append(@, arg[t])]
  /\ owner' = [owner EXCEPT ![arg[t]] = "state"]
  /\ reg' = [reg EXCEPT ![arg[t]] = St(t)]
  /\ AfterRegister(t, kSuccessfullyRegistered)
  /\ MutexUnlock(t, St(t))
  /\ UNCHANGED <<kind, result, finished, handleVars, op, self, arg, drained,
                 invoked, aborted, calls, fulfilled_with, fulfil_count,
                 seen_finished, waited>>
  /\ UNCHANGED <<execVars, moreVars, contVars>>

\* ---- Future::Wait and Future::Get ----------------------------------------
\* Wait() with the CHECK left out: on an invalid future it just returns
WaitCheck_NoCheck(t, f) ==
  /\ IF IsValid(f) THEN Goto(t, "wait_await") ELSE Return(t, 0)
  /\ UNCHANGED aborted

\* CHECK(this->IsValid());
WaitCheck(t, f) ==
  IF IsValid(f)
  THEN Goto(t, "wait_await") /\ UNCHANGED aborted
  ELSE aborted' = TRUE /\ Goto(t, "fatal")

CallWait(t, f) ==
  /\ handle[f] = "live"
  /\ Enter(t, "Wait", f, 0)
  /\ WaitCheck(t, f)
  /\ UNCHANGED <<sharedVars, mutex, handleVars, drained, owner, invoked,
                 fulfilled_with, fulfil_count, seen_finished, reg>>
  /\ UNCHANGED <<execVars, moreVars, contVars>>

\* Get() exists for Future<T> only; it starts with Wait()
CallGet(t, f) ==
  /\ handle[f] = "live"
  /\ shared_state_[f] # NoState => kind[shared_state_[f]] = "T"
  /\ Enter(t, "Get", f, 0)
  /\ WaitCheck(t, f)
  /\ UNCHANGED <<sharedVars, mutex, handleVars, drained, owner, invoked,
                 fulfilled_with, fulfil_count, seen_finished, reg>>
  /\ UNCHANGED <<execVars, moreVars, contVars>>

\* the condition negated: !result->has_value()
AwaitCondition_Negated(s) == ~HasResult(s)

\* the absl::Condition given to Await: result->has_value()  /  *finished
AwaitCondition(s) == HasResult(s)

\* where Wait() leaves to: its caller, or the rest of Get()
AfterWait(t) == IF op[t] = "Get" THEN Goto(t, "get_value") ELSE Return(t, 0)

\* Wait() without the Await: it takes the mutex and returns
WaitAwait_NoAwait(t) ==
  /\ ~aborted
  /\ pc[t] = "wait_await"
  /\ MutexAcquirable(St(t))
  /\ AfterWait(t)
  /\ UNCHANGED <<sharedVars, mutex, handleVars, op, self, arg, drained, owner,
                 invoked, aborted, calls, histVars>>
  /\ UNCHANGED <<execVars, moreVars, contVars>>

\* absl::MutexLock lock{&mutex}; mutex.Await(condition): returns at once
\* when the condition holds, else releases the mutex and suspends the thread
WaitAwait(t) ==
  /\ ~aborted
  /\ pc[t] = "wait_await"
  /\ MutexAcquirable(St(t))
  /\ IF AwaitCondition(St(t))
     THEN AfterWait(t) /\ UNCHANGED waited
     ELSE Goto(t, "wait_blocked") /\ waited' = [waited EXCEPT ![t] = TRUE]
  /\ UNCHANGED <<sharedVars, mutex, handleVars, op, self, arg, drained, owner,
                 invoked, aborted, calls, fulfilled_with, fulfil_count,
                 seen_finished, reg>>
  /\ UNCHANGED <<execVars, moreVars, contVars>>

\* Await wakes up: the condition holds and the mutex was reacquired; the
\* MutexLock scope then ends
WaitWake(t) ==
  /\ ~aborted
  /\ pc[t] = "wait_blocked"
  /\ MutexAcquirable(St(t))
  /\ AwaitCondition(St(t))
  /\ AfterWait(t)
  /\ UNCHANGED <<sharedVars, mutex, handleVars, op, self, arg, drained, owner,
                 invoked, aborted, calls, histVars>>
  /\ UNCHANGED <<execVars, moreVars, contVars>>

\* Get() as it would be if it moved the value out of the SharedState, the way
\* std::future::get does
GetValue_Consuming(t) ==
  /\ ~aborted
  /\ pc[t] = "get_value"
  /\ MutexAcquirable(St(t))
  /\ Return(t, result[St(t)])
  /\ result' = [result EXCEPT ![St(t)] = NoValue]
  /\ UNCHANGED <<kind, finished, continuations, mutex, handleVars, op, self,
                 arg, drained, owner, invoked, aborted, calls, histVars>>
  /\ UNCHANGED <<execVars, moreVars, contVars>>

\* absl::MutexLock lock{&mutex}; return this->shared_state_->result.value();
GetValue(t) ==
  /\ ~aborted
  /\ pc[t] = "get_value"
  /\ MutexAcquirable(St(t))
  /\ Return(t, result[St(t)])
  /\ UNCHANGED <<sharedVars, mutex, handleVars, op, self, arg, drained, owner,
                 invoked, aborted, calls, histVars>>
  /\ UNCHANGED <<execVars, moreVars, contVars>>

\* ---- Promise::Set / SetFinished (SharedState::Fulfill) -------------------
\* v is the value for a Promise<T> and NoValue for a Promise<void>
CallPromiseSet(t, s, v) ==
  /\ promise[s] = "alive"
  /\ (kind[s] = "void") = (v = NoValue)
  /\ Enter(t, "Set", s, v)
  /\ Goto(t, "set_fulfill")
  /\ UNCHANGED <<sharedVars, mutex, handleVars, drained, owner, invoked,
                 aborted, fulfilled_with, fulfil_count, seen_finished, reg>>
  /\ UNCHANGED <<execVars, moreVars, contVars>>

\* the fulfilment as it would be without the check for a double fulfilment
PromiseSetFulfill_NoCheck(t) ==
  /\ ~aborted
  /\ pc[t] = "set_fulfill"
  /\ MutexAcquirable(St(t))
  /\ IF kind[St(t)] = "void"
     THEN finished' = [finished EXCEPT ![St(t)] = TRUE] /\ UNCHANGED result
     ELSE result' = [result EXCEPT ![St(t)] = arg[t]] /\ UNCHANGED finished
  /\ drained' = [drained EXCEPT ![t] = continuations[St(t)]]
  /\ continuations' = [continuations EXCEPT ![St(t)] = <<>>]
  /\ fulfilled_with' = [fulfilled_with EXCEPT ![St(t)] = arg[t]]
  /\ fulfil_count' = [fulfil_count EXCEPT ![St(t)] = @ + 1]
  /\ Goto(t, "set_invoke")
  /\ UNCHANGED <<kind, aborted, mutex, handleVars, op, self, arg, owner,
                 invoked, calls, seen_finished, reg, waited>>
  /\ UNCHANGED <<execVars, moreVars, contVars>>

\* the fulfilment as it would be if it kept the guard while it invokes the
\* continuations
PromiseSetFulfill_KeepsGuard(t) ==
  /\ ~aborted
  /\ pc[t] = "set_fulfill"
  /\ MutexAcquirable(St(t))
  /\ IF HasResult(St(t))
     THEN /\ aborted' = TRUE
          /\ Goto(t, "fatal")
          /\ UNCHANGED <<sharedVars, drained, fulfilled_with, fulfil_count, mutex>>
     ELSE /\ IF kind[St(t)] = "void"
             THEN finished' = [finished EXCEPT ![St(t)] = TRUE] /\ UNCHANGED result
             ELSE result' = [result EXCEPT ![St(t)] = arg[t]] /\ UNCHANGED finished
          /\ drained' = [drained EXCEPT ![t] = continuations[St(t)]]
          /\ continuations' = [continuations EXCEPT ![St(t)] = <<>>]
          /\ fulfilled_with' = [fulfilled_with EXCEPT ![St(t)] = arg[t]]
          /\ fulfil_count' = [fulfil_count EXCEPT ![St(t)] = @ + 1]
          /\ Goto(t, "set_invoke")
          /\ mutex' = [mutex EXCEPT ![St(t)] = t]
          /\ UNCHANGED <<kind, aborted>>
  /\ UNCHANGED <<handleVars, op, self, arg, owner, invoked, calls,
                 seen_finished, reg, waited>>
  /\ UNCHANGED <<execVars, moreVars, contVars>>

\* under the guard: fatal when already fulfilled; else write the result
\* (finished), take the queued continuations out and release the guard
PromiseSetFulfill(t) ==
  /\ ~aborted
  /\ pc[t] = "set_fulfill"
  /\ MutexAcquirable(St(t))
  /\ IF HasResult(St(t))
     THEN /\ aborted' = TRUE
          /\ Goto(t, "fatal")
          /\ UNCHANGED <<sharedVars, drained, fulfilled_with, fulfil_count>>
     ELSE /\ IF kind[St(t)] = "void"
             THEN finished' = [finished EXCEPT ![St(t)] = TRUE] /\ UNCHANGED result
             ELSE result' = [result EXCEPT ![St(t)] = arg[t]] /\ UNCHANGED finished
          /\ drained' = [drained EXCEPT ![t] = continuations[St(t)]]
          /\ continuations' = [continuations EXCEPT ![St(t)] = <<>>]
          /\ fulfilled_with' = [fulfilled_with EXCEPT ![St(t)] = arg[t]]
          /\ fulfil_count' = [fulfil_count EXCEPT ![St(t)] = @ + 1]
          /\ Goto(t, "set_invoke")
          /\ UNCHANGED <<kind, aborted>>
  /\ UNCHANGED <<mutex, handleVars, op, self, arg, owner, invoked, calls,
                 seen_finished, reg, waited>>
  /\ UNCHANGED <<execVars, moreVars, contVars>>

\* ---- the continuation made by MainThreadExecutor::ScheduleAfter ----------
\* the action put on the executor: the function wrapper that holds the
\* functor, the promise (of SharedState s) and the argument x
FunctionWrapper(s, x) == [promise |-> s, argument |-> x]

\* the continuation as it would be if it called the functor itself, on the
\* thread that invokes it, and did not schedule it on the executor
InvokeContinuation_Inline(c, x) ==
  /\ IF closure[c] # NoState /\ executor = "alive"
     THEN runs' = [runs EXCEPT ![closure[c]] = @ + 1]
     ELSE UNCHANGED runs
  /\ UNCHANGED queue

\* the continuation as it would be if it called the functor itself when it
\* finds the executor gone
InvokeContinuation_RunsWhenGone(c, x) ==
  IF closure[c] = NoState
  THEN UNCHANGED <<queue, runs>>
  ELSE IF executor = "alive"
       THEN /\ queue' = Append(queue, FunctionWrapper(closure[c], x))
            /\ UNCHANGED runs
       ELSE /\ runs' = [runs EXCEPT ![closure[c]] = @ + 1]
            /\ UNCHANGED queue

\* the continuation as it would be if it locked the executor and then
\* scheduled nothing on it
InvokeContinuation_NoSchedule(c, x) == UNCHANGED <<queue, runs>>

\* the continuation as it would be if the function wrapper did not capture
\* the argument
InvokeContinuation_DropsArgument(c, x) ==
  /\ IF closure[c] # NoState /\ executor = "alive"
     THEN queue' = Append(queue, FunctionWrapper(closure[c], NoValue))
     ELSE UNCHANGED queue
  /\ UNCHANGED runs

\* continuation c is called with argument x. A continuation made by
\* ScheduleAfter locks its weak_ptr to the executor, returns when the executor
\* is gone and else schedules the function wrapper on it; any other
\* continuation has no effect on the executor.
InvokeContinuation(c, x) ==
  /\ IF closure[c] # NoState /\ executor = "alive"
     THEN queue' = Append(queue, FunctionWrapper(closure[c], x))
     ELSE UNCHANGED queue
  /\ UNCHANGED runs

\* outside the guard: invoke the continuations taken out, in order, each with
\* the result
PromiseSetInvoke(t) ==
  /\ ~aborted
  /\ pc[t] = "set_invoke"
  /\ IF drained[t] = <<>>
     THEN Return(t, 0) /\ UNCHANGED <<drained, owner, invoked, queue, runs, observed>>
     ELSE /\ invoked' = [invoked EXCEPT ![Head(drained[t])] = @ + 1]
          /\ owner' = [owner EXCEPT ![Head(drained[t])] = "gone"]
          /\ drained' = [drained EXCEPT ![t] = Tail(@)]
          /\ InvokeContinuation(Head(drained[t]), result[St(t)])
          /\ observed' = [observed EXCEPT ![Head(drained[t])] = result[St(t)]]
          /\ UNCHANGED <<pc, ret>>
  /\ UNCHANGED <<sharedVars, mutex, handleVars, op, self, arg, aborted, calls,
                 histVars, executor, functor, after, closure, moreVars, reply>>

\* ---- MainThreadExecutor --------------------------------------------------
\* Schedule as it would be if it called the functor itself and set the
\* promise before returning
CallSchedule_Inline(t, v) ==
  /\ executor = "alive"
  /\ FreshState # 0
  /\ FreshFuture # 0
  /\ Enter(t, "Schedule", FreshFuture, v)
  /\ kind' = [kind EXCEPT ![FreshState] = "T"]
  /\ promise' = [promise EXCEPT ![FreshState] = "captured"]
  /\ handle' = [handle EXCEPT ![FreshFuture] = "live"]
  /\ shared_state_' = [shared_state_ EXCEPT ![FreshFuture] = FreshState]
  /\ origin' = [origin EXCEPT ![FreshFuture] = [how |-> "schedule", of |-> 0]]
  /\ functor' = [functor EXCEPT ![FreshState] = v]
  /\ runs' = [runs EXCEPT ![FreshState] = @ + 1]
  /\ result' = [result EXCEPT ![FreshState] = v]
  /\ fulfilled_with' = [fulfilled_with EXCEPT ![FreshState] = v]
  /\ fulfil_count' = [fulfil_count EXCEPT ![FreshState] = 1]
  /\ Return(t, FreshFuture)
  /\ UNCHANGED <<finished, continuations, mutex, drained, owner, invoked,
                 aborted, seen_finished, reg, executor, queue, after, closure>>
  /\ UNCHANGED <<moreVars, contVars>>

\* Schedule(functor), functor returning v: a promise and its future are made,
\* the function wrapper holding functor and promise is scheduled as an action,
\* the future is returned
CallSchedule(t, v) ==
  /\ Exists
  /\ FreshState # 0
  /\ FreshFuture # 0
  /\ Enter(t, "Schedule", FreshFuture, v)
  /\ kind' = [kind EXCEPT ![FreshState] = "T"]
  /\ promise' = [promise EXCEPT ![FreshState] = "captured"]
  /\ handle' = [handle EXCEPT ![FreshFuture] = "live"]
  /\ shared_state_' = [shared_state_ EXCEPT ![FreshFuture] = FreshState]
  /\ origin' = [origin EXCEPT ![FreshFuture] = [how |-> "schedule", of |-> 0]]
  /\ functor' = [functor EXCEPT ![FreshState] = v]
  /\ queue' = Append(queue, FunctionWrapper(FreshState, NoValue))
  /\ Return(t, FreshFuture)
  /\ UNCHANGED <<result, finished, continuations, mutex, drained, owner,
                 invoked, aborted, fulfilled_with, fulfil_count, seen_finished,
                 reg, executor, after, closure, runs>>
  /\ UNCHANGED <<moreVars, contVars>>

\* ScheduleAfter as it would be if it scheduled the function wrapper at once,
\* as Schedule does, and did not leave that to the continuation
ScheduleAfter_Immediately(t, f, c, v) ==
  /\ executor = "alive"
  /\ handle[f] = "live"
  /\ Unused(c)
  /\ \A d \in 1..(c - 1) : ~Unused(d)
  /\ FreshState # 0
  /\ FreshFuture # 0
  /\ IF ~IsValid(f)
     THEN /\ aborted' = TRUE
          /\ Goto(t, "fatal")
          /\ UNCHANGED <<kind, handleVars, functor, after, closure, queue>>
     ELSE /\ Goto(t, "register_check")
          /\ kind' = [kind EXCEPT ![FreshState] = "T"]
          /\ promise' = [promise EXCEPT ![FreshState] = "captured"]
          /\ handle' = [handle EXCEPT ![FreshFuture] = "live"]
          /\ shared_state_' = [shared_state_ EXCEPT ![FreshFuture] = FreshState]
          /\ origin' = [origin EXCEPT ![FreshFuture] = [how |-> "after", of |-> f]]
          /\ functor' = [functor EXCEPT ![FreshState] = v]
          /\ after' = [after EXCEPT ![FreshState] = shared_state_[f]]
          /\ closure' = [closure EXCEPT ![c] = FreshState]
          /\ queue' = Append(queue, FunctionWrapper(FreshState, NoValue))
          /\ UNCHANGED aborted
  /\ UNCHANGED <<result, finished, continuations, mutex, drained, owner,
                 invoked, fulfilled_with, fulfil_count, seen_finished, reg,
                 executor, runs>>
  /\ UNCHANGED <<moreVars, contVars>>

\* ScheduleAfter as it would be if it returned an empty future in place of
\* CHECK(future.IsValid())
ScheduleAfter_NoCheck(t, f, c, v) ==
  /\ executor = "alive"
  /\ handle[f] = "live"
  /\ Unused(c)
  /\ \A d \in 1..(c - 1) : ~Unused(d)
  /\ IsValid(f) => (FreshState # 0 /\ FreshFuture # 0)
  /\ IF ~IsValid(f)
     THEN /\ Return(t, NoFuture)
          /\ UNCHANGED <<kind, handleVars, functor, after, closure>>
     ELSE /\ Goto(t, "register_check")
          /\ kind' = [kind EXCEPT ![FreshState] = "T"]
          /\ promise' = [promise EXCEPT ![FreshState] = "captured"]
          /\ handle' = [handle EXCEPT ![FreshFuture] = "live"]
          /\ shared_state_' = [shared_state_ EXCEPT ![FreshFuture] = FreshState]
          /\ origin' = [origin EXCEPT ![FreshFuture] = [how |-> "after", of |-> f]]
          /\ functor' = [functor EXCEPT ![FreshState] = v]
          /\ after' = [after EXCEPT ![FreshState] = shared_state_[f]]
          /\ closure' = [closure EXCEPT ![c] = FreshState]
  /\ UNCHANGED <<result, finished, continuations, mutex, drained, owner,
                 invoked, aborted, fulfilled_with, fulfil_count, seen_finished,
                 reg, executor, queue, runs>>
  /\ UNCHANGED <<moreVars, contVars>>

\* ScheduleAfter(future, functor), functor returning v, run by thread t:
\* CHECK(future.IsValid()); a promise and the resulting future are made, the
\* continuation c that holds functor, weak_from_this() and the promise is
\* made, and RegisterContinuationOrCallDirectly(future, continuation) is entered
ScheduleAfter(t, f, c, v) ==
  /\ Exists
  /\ handle[f] = "live"
  /\ Unused(c)
  /\ \A d \in 1..(c - 1) : ~Unused(d)
  /\ IsValid(f) => (FreshState # 0 /\ FreshFuture # 0)
  /\ IF ~IsValid(f)
     THEN /\ aborted' = TRUE
          /\ Goto(t, "fatal")
          /\ UNCHANGED <<kind, handleVars, functor, after, closure>>
     ELSE /\ Goto(t, "register_check")
          /\ kind' = [kind EXCEPT ![FreshState] = "T"]
          /\ promise' = [promise EXCEPT ![FreshState] = "captured"]
          /\ handle' = [handle EXCEPT ![FreshFuture] = "live"]
          /\ shared_state_' = [shared_state_ EXCEPT ![FreshFuture] = FreshState]
          /\ origin' = [origin EXCEPT ![FreshFuture] = [how |-> "after", of |-> f]]
          /\ functor' = [functor EXCEPT ![FreshState] = v]
          /\ after' = [after EXCEPT ![FreshState] = shared_state_[f]]
          /\ closure' = [closure EXCEPT ![c] = FreshState]
          /\ UNCHANGED aborted
  /\ UNCHANGED <<result, finished, continuations, mutex, drained, owner,
                 invoked, fulfilled_with, fulfil_count, seen_finished, reg,
                 executor, queue, runs>>
  /\ UNCHANGED <<moreVars, contVars>>

\* thread t calls executor->ScheduleAfter(f, functor)
CallScheduleAfter(t, f, c, v) ==
  /\ Enter(t, "ScheduleAfter", f, c)
  /\ ScheduleAfter(t, f, c, v)

\* ---- Future::Then --------------------------------------------------------
\* Then as it would be if it passed on a Future moved from *this, which holds
\* no SharedState
CallThen_MovedFrom(t, f, c, v) ==
  /\ Enter(t, "Then", f, c)
  /\ executor = "alive"
  /\ handle[f] = "live"
  /\ Unused(c)
  /\ \A d \in 1..(c - 1) : ~Unused(d)
  /\ FreshState # 0
  /\ FreshFuture # 0
  /\ aborted' = TRUE
  /\ Goto(t, "fatal")
  /\ UNCHANGED <<sharedVars, mutex, handleVars, drained, owner, invoked,
                 fulfilled_with, fulfil_count, seen_finished, reg>>
  /\ UNCHANGED <<execVars, moreVars, contVars>>

\* return executor->ScheduleAfter(this->self(), invocable);   (Future<T>)
\* return executor->ScheduleAfter(*this, invocable);          (Future<void>)
CallThen(t, f, c, v) ==
  /\ Enter(t, "Then", f, c)
  /\ ScheduleAfter(t, f, c, v)

\* ---- MainThreadExecutor::ScheduleAfterIfSuccess, Future::ThenIfSuccess ---
\* ScheduleAfterIfSuccess as it would be if its function wrapper called the
\* functor whatever the outcome, as the one of ScheduleAfter does
ScheduleAfterIfSuccess_Always(t, f, c, v) ==
  /\ executor = "alive"
  /\ handle[f] = "live"
  /\ shared_state_[f] = NoState \/ kind[shared_state_[f]] = "T"
  /\ Unused(c)
  /\ \A d \in 1..(c - 1) : ~Unused(d)
  /\ FreshState # 0
  /\ FreshFuture # 0
  /\ IF ~IsValid(f)
     THEN /\ aborted' = TRUE
          /\ Goto(t, "fatal")
          /\ UNCHANGED <<kind, handleVars, functor, after, closure, if_success>>
     ELSE /\ Goto(t, "register_check")
          /\ kind' = [kind EXCEPT ![FreshState] = "T"]
          /\ promise' = [promise EXCEPT ![FreshState] = "captured"]
          /\ handle' = [handle EXCEPT ![FreshFuture] = "live"]
          /\ shared_state_' = [shared_state_ EXCEPT ![FreshFuture] = FreshState]
          /\ origin' = [origin EXCEPT ![FreshFuture] = [how |-> "after", of |-> f]]
          /\ functor' = [functor EXCEPT ![FreshState] = v]
          /\ after' = [after EXCEPT ![FreshState] = shared_state_[f]]
          /\ closure' = [closure EXCEPT ![c] = FreshState]
          /\ UNCHANGED <<aborted, if_success>>
  /\ UNCHANGED <<result, finished, continuations, mutex, drained, owner,
                 invoked, fulfilled_with, fulfil_count, seen_finished, reg,
                 executor, queue, runs>>
  /\ UNCHANGED <<waitjob, contVars, appVars>>

\* ScheduleAfterIfSuccess(future, functor) on a Future<ErrorMessageOr<T>>,
\* functor returning the outcome v: as ScheduleAfter, and the function wrapper
\* is marked to skip the functor on a failing outcome
ScheduleAfterIfSuccess(t, f, c, v) ==
  /\ executor = "alive"
  /\ handle[f] = "live"
  /\ shared_state_[f] = NoState \/ kind[shared_state_[f]] = "T"
  /\ Unused(c)
  /\ \A d \in 1..(c - 1) : ~Unused(d)
  /\ FreshState # 0
  /\ FreshFuture # 0
  /\ IF ~IsValid(f)
     THEN /\ aborted' = TRUE
          /\ Goto(t, "fatal")
          /\ UNCHANGED <<kind, handleVars, functor, after, closure, if_success>>
     ELSE /\ Goto(t, "register_check")
          /\ kind' = [kind EXCEPT ![FreshState] = "T"]
          /\ promise' = [promise EXCEPT ![FreshState] = "captured"]
          /\ handle' = [handle EXCEPT ![FreshFuture] = "live"]
          /\ shared_state_' = [shared_state_ EXCEPT ![FreshFuture] = FreshState]
          /\ origin' = [origin EXCEPT ![FreshFuture] = [how |-> "after", of |-> f]]
          /\ functor' = [functor EXCEPT ![FreshState] = v]
          /\ after' = [after EXCEPT ![FreshState] = shared_state_[f]]
          /\ closure' = [closure EXCEPT ![c] = FreshState]
          /\ if_success' = [if_success EXCEPT ![FreshState] = TRUE]
          /\ UNCHANGED aborted
  /\ UNCHANGED <<result, finished, continuations, mutex, drained, owner,
                 invoked, fulfilled_with, fulfil_count, seen_finished, reg,
                 executor, queue, runs>>
  /\ UNCHANGED <<waitjob, contVars, appVars>>

\* thread t calls executor->ScheduleAfterIfSuccess(f, functor)
CallScheduleAfterIfSuccess(t, f, c, v) ==
  /\ Enter(t, "ScheduleAfterIfSuccess", f, c)
  /\ ScheduleAfterIfSuccess(t, f, c, v)

\* ThenIfSuccess as it would be if it handed the future to ScheduleAfter
CallThenIfSuccess_Then(t, f, c, v) ==
  /\ Enter(t, "ThenIfSuccess", f, c)
  /\ ScheduleAfter(t, f, c, v)

\* return executor->ScheduleAfterIfSuccess(*this, invocable);
CallThenIfSuccess(t, f, c, v) ==
  /\ Enter(t, "ThenIfSuccess", f, c)
  /\ ScheduleAfterIfSuccess(t, f, c, v)

\* f = std::move(g), g being the Future a call has returned: f takes the
\* SharedState of g, and g, a temporary, is destroyed; its place is free for
\* the next temporary
FutureMoveAssign(f, g) ==
  /\ ~aborted
  /\ f \in Futures
  /\ f # g
  /\ handle[f] = "live"
  /\ handle[g] = "live"
  /\ origin[g].how = "after"
  /\ Quiet(f)
  /\ Quiet(g)
  /\ handle' = [handle EXCEPT ![g] = "unborn"]
  /\ shared_state_' = [shared_state_ EXCEPT ![f] = shared_state_[g], ![g] = NoState]
  /\ origin' = [origin EXCEPT ![f] = origin[g], ![g] = [how |-> "none", of |-> 0]]
  /\ UNCHANGED <<sharedVars, mutex, promise, threadVars, owner, invoked,
                 aborted, calls, histVars>>
  /\ UNCHANGED <<execVars, moreVars, contVars>>



\* RegisterContinuationOrCallDirectly when RegisterContinuation has returned
\* kFutureAlreadyCompleted: continuation(future.Get()), on the calling thread
ScheduleAfterCallDirectly(t) ==
  /\ ~aborted
  /\ pc[t] = "after_direct"
  /\ MutexAcquirable(St(t))
  /\ InvokeContinuation(arg[t], result[St(t)])
  /\ observed' = [observed EXCEPT ![arg[t]] = result[St(t)]]
  /\ invoked' = [invoked EXCEPT ![arg[t]] = @ + 1]
  /\ owner' = [owner EXCEPT ![arg[t]] = "gone"]
  /\ Return(t, kFutureAlreadyCompleted)
  /\ UNCHANGED <<sharedVars, mutex, handleVars, op, self, arg, drained, aborted,
                 calls, histVars, executor, functor, after, closure, moreVars, reply>>

\* the function wrapper w was made by ScheduleAfterIfSuccess and holds a
\* failing outcome: it does not call its functor
ShortCircuits(w) == if_success[w.promise] /\ IsError(w.argument)

\* the event loop as it would be if it picked up the next action while the
\* action before it is still being executed
LoopRun_Nested ==
  /\ ~aborted
  /\ executor = "alive"
  /\ queue # <<>>
  /\ pc[MainThread] \in {"idle", "ret", "set_fulfill", "set_invoke"}
  /\ queue' = Tail(queue)
  /\ IF ShortCircuits(Head(queue))
     THEN /\ UNCHANGED runs
          /\ arg' = [arg EXCEPT ![MainThread] = Head(queue).argument]
     ELSE /\ runs' = [runs EXCEPT ![Head(queue).promise] = @ + 1]
          /\ arg' = [arg EXCEPT ![MainThread] = functor[Head(queue).promise]]
  /\ op' = [op EXCEPT ![MainThread] = "Set"]
  /\ self' = [self EXCEPT ![MainThread] = Head(queue).promise]
  /\ Goto(MainThread, "set_fulfill")
  /\ UNCHANGED <<sharedVars, mutex, handleVars, drained, owner, invoked,
                 aborted, calls, histVars, executor, functor, after, closure>>
  /\ UNCHANGED <<moreVars, contVars>>

\* the event loop of the main thread picks up the oldest action: the function
\* wrapper calls its functor and sets the result in its promise
\* (CallTaskAndSetResultInPromise), which goes on as Promise::Set; a wrapper
\* of ScheduleAfterIfSuccess given a failing outcome sets that outcome
LoopRun ==
  /\ ~aborted
  /\ Exists
  /\ queue # <<>>
  /\ Free(MainThread)
  /\ queue' = Tail(queue)
  /\ IF ShortCircuits(Head(queue))
     THEN /\ UNCHANGED runs
          /\ arg' = [arg EXCEPT ![MainThread] = Head(queue).argument]
     ELSE /\ runs' = [runs EXCEPT ![Head(queue).promise] = @ + 1]
          /\ arg' = [arg EXCEPT ![MainThread] = functor[Head(queue).promise]]
  /\ op' = [op EXCEPT ![MainThread] = "Set"]
  /\ self' = [self EXCEPT ![MainThread] = Head(queue).promise]
  /\ Goto(MainThread, "set_fulfill")
  /\ UNCHANGED <<sharedVars, mutex, handleVars, drained, owner, invoked,
                 aborted, calls, histVars, executor, functor, after, closure>>
  /\ UNCHANGED <<moreVars, contVars>>

\* the destruction as it would be if the continuations made by ScheduleAfter
\* held a shared_ptr to the executor: it cannot happen while one is stored
ExecutorDtor_OwnedByContinuations ==
  /\ ~aborted
  /\ calls < MaxCalls
  /\ calls' = calls + 1
  /\ executor = "alive"
  /\ \A t \in Threads : Free(t) \/ op[t] \notin {"Schedule"} \cup AfterOps
  /\ Free(MainThread)
  /\ \A c \in Conts : ~(closure[c] # NoState /\ owner[c] = "state")
  /\ executor' = "destroyed"
  /\ queue' = <<>>
  /\ UNCHANGED <<sharedVars, mutex, handleVars, threadVars, owner, invoked,
                 aborted, histVars, functor, after, closure, runs>>
  /\ UNCHANGED <<moreVars, contVars>>

\* the destruction as it would be if the destructor executed the actions
\* that are still scheduled
ExecutorDtor_RunsQueue ==
  /\ ~aborted
  /\ calls < MaxCalls
  /\ calls' = calls + 1
  /\ executor = "alive"
  /\ \A t \in Threads : Free(t) \/ op[t] \notin {"Schedule"} \cup AfterOps
  /\ Free(MainThread)
  /\ executor' = "destroyed"
  /\ queue' = <<>>
  /\ runs' = [s \in States |->
                IF \E i \in 1..Len(queue) : queue[i].promise = s
                THEN runs[s] + 1 ELSE runs[s]]
  /\ UNCHANGED <<sharedVars, mutex, handleVars, threadVars, owner, invoked,
                 aborted, histVars, functor, after, closure>>
  /\ UNCHANGED <<moreVars, contVars>>

\* the last owner releases the executor while no thread is inside one of its
\* member functions: the actions still scheduled are never executed
ExecutorDtor ==
  /\ ~aborted
  /\ calls < MaxCalls
  /\ calls' = calls + 1
  /\ Exists
  /\ \A t \in Threads : Free(t) \/ op[t] \notin {"Schedule"} \cup AfterOps
  /\ Free(MainThread)
  /\ executor' = "destroyed"
  /\ queue' = <<>>
  /\ UNCHANGED <<sharedVars, mutex, handleVars, threadVars, owner, invoked,
                 aborted, histVars, functor, after, closure, runs>>
  /\ UNCHANGED <<moreVars, contVars>>

\* ---- the system ----------------------------------------------------------
\* value w occurs in the state: stored, to be stored, or returned by a functor
UsedValue(w) ==
  \/ \E s \in States : result[s] = w \/ fulfilled_with[s] = w \/ functor[s] = w
  \/ \E t \in Threads : op[t] \in {"Set", "Schedule"} /\ arg[t] = w

\* the values a caller passes in. Values are only stored and compared, so
\* they are interchangeable: of the values not in use, the least is taken.
InputValues == {v \in Values : \A w \in 1..(v - 1) : UsedValue(w)}

\* the outcomes a caller passes in or a functor returns: a value, or an error
\* message; the error messages are interchangeable as the values are
InputOutcomes ==
  InputValues \cup {0 - e : e \in {v \in Values : \A w \in 1..(v - 1) : UsedValue(0 - w)}}

\* one step of the member function thread t is running
ThreadStep(t) ==
  \/ IsFinishedRead(t)
  \/ RegisterContinuationCheck(t)
  \/ RegisterContinuationEmplace(t)
  \/ WaitAwait(t)
  \/ WaitWake(t)
  \/ GetValue(t)
  \/ PromiseSetFulfill(t)
  \/ PromiseSetInvoke(t)
  \/ ScheduleAfterCallDirectly(t)

Next ==
  \/ \E k \in {"T", "void"} : PromiseCtor(k)
  \/ \E s \in States : PromiseGetFuture(s)
  \/ \E s \in States : PromiseDtor(s)
  \/ \E v \in InputValues : FutureCtor(v)
  \/ FutureVoidCtor
  \/ \E f \in Futures : FutureCopy(f)
  \/ \E f \in Futures : FutureMove(f)
  \/ \E f \in Futures : FutureDtor(f)
  \/ \E t \in Threads, f \in Futures : CallIsFinished(t, f)
  \/ \E t \in Threads, f \in Futures, c \in Conts : CallRegisterContinuation(t, f, c)
  \/ \E t \in Threads, f \in Futures : CallWait(t, f)
  \/ \E t \in Threads, f \in Futures : CallGet(t, f)
  \/ \E t \in Threads, s \in States, v \in InputValues \cup {NoValue} : CallPromiseSet(t, s, v)
  \/ \E t \in Threads, v \in InputValues : CallSchedule(t, v)
  \/ \E t \in Threads, f \in Futures, c \in Conts, v \in InputValues :
       CallScheduleAfter(t, f, c, v)
  \/ LoopRun
  \/ ExecutorDtor
  \/ \E t \in Threads : ThreadStep(t)

Spec == Init /\ [][Next]_vars

\* the futures and promises by themselves, without an executor
FutureStep(t) ==
  \/ IsFinishedRead(t)
  \/ RegisterContinuationCheck(t)
  \/ RegisterContinuationEmplace(t)
  \/ WaitAwait(t)
  \/ WaitWake(t)
  \/ GetValue(t)
  \/ PromiseSetFulfill(t)
  \/ PromiseSetInvoke(t)

FutureNext ==
  \/ \E k \in {"T", "void"} : PromiseCtor(k)
  \/ \E s \in States : PromiseGetFuture(s)
  \/ \E s \in States : PromiseDtor(s)
  \/ \E v \in InputValues : FutureCtor(v)
  \/ FutureVoidCtor
  \/ \E f \in Futures : FutureCopy(f)
  \/ \E f \in Futures : FutureMove(f)
  \/ \E f \in Futures : FutureDtor(f)
  \/ \E t \in Threads, f \in Futures : CallIsFinished(t, f)
  \/ \E t \in Threads, f \in Futures, c \in Conts : CallRegisterContinuation(t, f, c)
  \/ \E t \in Threads, f \in Futures : CallWait(t, f)
  \/ \E t \in Threads, f \in Futures : CallGet(t, f)
  \/ \E t \in Threads, s \in States, v \in InputValues \cup {NoValue} : CallPromiseSet(t, s, v)
  \/ \E t \in Threads : FutureStep(t)

FutureSpec == Init /\ [][FutureNext]_vars

\* the executor with the futures it is given: source futures of promises or
\* already completed, ScheduleAfter, the fulfilment of the sources, the event
\* loop, the executor's destruction, and threads that ask IsFinished()
ExecStep(t) ==
  \/ IsFinishedRead(t)
  \/ RegisterContinuationCheck(t)
  \/ RegisterContinuationEmplace(t)
  \/ ScheduleAfterCallDirectly(t)
  \/ PromiseSetFulfill(t)
  \/ PromiseSetInvoke(t)

ExecNext ==
  \/ \E k \in {"T", "void"} : PromiseCtor(k)
  \/ \E v \in InputValues : FutureCtor(v)
  \/ \E t \in Threads, f \in Futures, c \in Conts, v \in InputValues :
       CallScheduleAfter(t, f, c, v)
  \/ \E t \in Threads, s \in States, v \in InputValues \cup {NoValue} : CallPromiseSet(t, s, v)
  \/ \E t \in Threads, f \in Futures : CallIsFinished(t, f)
  \/ ExecutorDtor
  \/ LoopRun
  \/ \E t \in Threads : ExecStep(t)

ExecSpec == Init /\ [][ExecNext]_vars

\* the executor with the futures it makes: Schedule, the event loop, the
\* executor's destruction, and threads that ask the returned future for
\* IsFinished() or Get()
ScheduleStep(t) ==
  \/ IsFinishedRead(t)
  \/ WaitAwait(t)
  \/ WaitWake(t)
  \/ GetValue(t)
  \/ PromiseSetFulfill(t)
  \/ PromiseSetInvoke(t)

ScheduleNext ==
  \/ \E t \in Threads, v \in InputValues : CallSchedule(t, v)
  \/ \E t \in Threads, f \in Futures : CallIsFinished(t, f)
  \/ \E t \in Threads, f \in Futures : CallGet(t, f)
  \/ ExecutorDtor
  \/ LoopRun
  \/ \E t \in Threads : ScheduleStep(t)

ScheduleSpec == Init /\ [][ScheduleNext]_vars


\* ---- steps and states the properties speak of ----------------------------
\* this step is thread t entering a member function
Entered(t) ==
  /\ t # MainThread
  /\ executor' = executor
  /\ Free(t)
  /\ \A u \in 1..(t - 1) : ~Free(u)
  /\ calls' = calls + 1
  /\ UNCHANGED handleVars

\* this step is thread t returning from a member function
ReturnsNow(t) == pc'[t] = "ret" /\ (Entered(t) \/ ~Free(t))

\* the fulfilment of SharedState s has written the result and has invoked
\* every continuation it took out
FulfilDone(s) ==
  /\ fulfil_count[s] >= 1
  /\ \A t \in Threads : ~(op[t] = "Set" /\ self[t] = s /\ pc[t] = "set_invoke")

\* HasResult(s) in the state the step leads to
HasResultNext(s) ==
  IF kind'[s] = "void" THEN finished'[s] ELSE result'[s] # NoValue

\* ---- properties ----------------------------------------------------------
\* C1: in every step, a SharedState that is fulfilled stays fulfilled and its
\* stored value does not change; no SharedState is fulfilled more than once.
C1_FulfilledOnce ==
  [][\A s \in States :
       /\ fulfil_count'[s] <= 1
       /\ HasResult(s) => /\ HasResult(s)'
                          /\ result'[s] = result[s]
                          /\ finished'[s] = finished[s]]_vars

\* C1 witness: a promise was fulfilled and Get() has since read the value
C1_Witness ==
  \E t \in Threads :
    /\ op[t] = "Get" /\ pc[t] = "ret"
    /\ St(t) # NoState
    /\ promise[St(t)] # "none"
    /\ ret[t] = result[St(t)]

\* C2: a Set (SetFinished) that finds its SharedState fulfilled takes no step
\* but into the fatal state, and that step leaves result and finished as
\* they were; a Set that got past the check stored its own value.
C2_DoubleSetFatal ==
  [][\A t \in Threads :
       /\ (pc[t] = "set_fulfill" /\ HasResult(self[t]) /\ pc'[t] # pc[t])
            => /\ pc'[t] = "fatal"
               /\ aborted'
               /\ result' = result
               /\ finished' = finished
               /\ continuations' = continuations
       /\ (op'[t] = "Set" /\ pc'[t] \in {"set_invoke", "ret"} /\ kind'[self'[t]] = "T")
            => result'[self'[t]] = arg'[t]]_vars

\* C2 witness: the process died in a second Set, the first value is in place
C2_Witness ==
  \E t \in Threads :
    /\ aborted
    /\ op[t] = "Set" /\ pc[t] = "fatal"
    /\ kind[self[t]] = "T"
    /\ arg[t] # result[self[t]]
    /\ result[self[t]] = fulfilled_with[self[t]]

\* C3: no continuation is invoked twice, and once the fulfilment of a
\* SharedState is done every continuation registered in it (each call having
\* returned kSuccessfullyRegistered) has been invoked exactly once.
C3_EachContinuationOnce ==
  \A c \in Conts :
    /\ invoked[c] <= 1
    /\ (reg[c] # NoState /\ FulfilDone(reg[c])) => invoked[c] = 1

\* C3 witness: two continuations registered in one SharedState, both invoked
C3_Witness ==
  \E c, d \in Conts :
    /\ c # d
    /\ reg[c] # NoState /\ reg[c] = reg[d]
    /\ FulfilDone(reg[c])
    /\ invoked[c] = 1 /\ invoked[d] = 1


\* the number of places continuation c is stored in: the continuations of
\* the SharedStates and the lists taken out by fulfilments
Occurrences(c) ==
  Cardinality({p \in States \X Conts :
                 /\ p[2] <= Len(continuations[p[1]])
                 /\ continuations[p[1]][p[2]] = c})
  + Cardinality({p \in Threads \X Conts :
                   /\ p[2] <= Len(drained[p[1]])
                   /\ drained[p[1]][p[2]] = c})

\* where a continuation is, by what became of the caller's object
ContinuationAccounted(c) ==
  CASE owner[c] = "caller" -> invoked[c] = 0 /\ Occurrences(c) = 0
    [] owner[c] = "state" ->
         /\ invoked[c] = 0
         /\ Occurrences(c) = 1
         /\ \/ /\ ~HasResult(reg[c])
               /\ \E i \in 1..Len(continuations[reg[c]]) : continuations[reg[c]][i] = c
            \/ \E t \in Threads :
                 /\ op[t] = "Set" /\ self[t] = reg[c] /\ pc[t] = "set_invoke"
                 /\ \E i \in 1..Len(drained[t]) : drained[t][i] = c
    [] owner[c] = "gone" -> invoked[c] = 1 /\ Occurrences(c) = 0

\* C4: whatever the interleaving with a fulfilment, a RegisterContinuation on
\* a valid future ends in one of two ways: kSuccessfullyRegistered with the
\* continuation stored in a still unfulfilled SharedState, or
\* kFutureAlreadyCompleted with the continuation neither stored nor invoked.
\* A stored continuation is in the list of an unfulfilled SharedState or in
\* the list a running fulfilment took out (never left behind in a fulfilled
\* state), and it is invoked once.
C4_RegisterRacesFulfilment ==
  [][/\ \A c \in Conts : ContinuationAccounted(c)'
     /\ \A s \in States : HasResult(s)' => continuations'[s] = <<>>
     /\ \A t \in Threads :
          (ReturnsNow(t) /\ op'[t] = "RegisterContinuation"
                         /\ ret'[t] # kFutureNotValid)
            => \/ /\ ret'[t] = kSuccessfullyRegistered
                  /\ owner'[arg'[t]] = "state"
                  /\ reg'[arg'[t]] = shared_state_[self'[t]]
                  /\ ~HasResultNext(shared_state_[self'[t]])
               \/ /\ ret'[t] = kFutureAlreadyCompleted
                  /\ owner'[arg'[t]] = "caller"
                  /\ HasResultNext(shared_state_[self'[t]])]_vars

\* C4 witness: a registration returned kSuccessfullyRegistered, another
\* thread fulfilled the same SharedState, and the continuation was invoked
C4_Witness ==
  \E t, u \in Threads :
    /\ op[t] = "RegisterContinuation" /\ pc[t] = "ret"
    /\ ret[t] = kSuccessfullyRegistered
    /\ op[u] = "Set" /\ pc[u] = "ret" /\ self[u] = reg[arg[t]]
    /\ invoked[arg[t]] = 1

\* C5: RegisterContinuation returns kFutureNotValid exactly when the future
\* is invalid; on a valid future it returns kFutureAlreadyCompleted exactly
\* when the SharedState is fulfilled in the step that returns, and
\* kSuccessfullyRegistered exactly when it is not.
C5_RegisterResult ==
  [][\A t \in Threads :
       (ReturnsNow(t) /\ op'[t] = "RegisterContinuation")
         => /\ ret'[t] \in {kSuccessfullyRegistered, kFutureAlreadyCompleted,
                            kFutureNotValid}
            /\ (ret'[t] = kFutureNotValid) <=> ~IsValid(self'[t])
            /\ IsValid(self'[t])
                 => /\ (ret'[t] = kFutureAlreadyCompleted)
                         <=> HasResult(shared_state_[self'[t]])
                    /\ (ret'[t] = kSuccessfullyRegistered)
                         <=> ~HasResult(shared_state_[self'[t]])]_vars

\* C5 witness: one call returned kFutureNotValid, another one
\* kFutureAlreadyCompleted
C5_Witness ==
  \E t, u \in Threads :
    /\ op[t] = "RegisterContinuation" /\ pc[t] = "ret"
    /\ ret[t] = kFutureNotValid /\ ~IsValid(self[t])
    /\ op[u] = "RegisterContinuation" /\ pc[u] = "ret"
    /\ ret[u] = kFutureAlreadyCompleted

\* C6: a step of RegisterContinuation changes the continuation lists, the
\* continuation objects, the invocation counts and the results only when it
\* returns kSuccessfullyRegistered, and then it moves the caller's
\* continuation to the end of the list of the future's SharedState.
C6_RegisterFrame ==
  [][\A t \in Threads :
       (op'[t] = "RegisterContinuation"
          /\ (Entered(t) \/ (~Free(t) /\ pc'[t] # pc[t])))
         => /\ UNCHANGED <<result, finished, invoked>>
            /\ IF pc'[t] = "ret" /\ ret'[t] = kSuccessfullyRegistered
               THEN /\ owner[arg'[t]] = "caller"
                    /\ owner' = [owner EXCEPT ![arg'[t]] = "state"]
                    /\ continuations' =
                         [continuations EXCEPT
                            ![shared_state_[self'[t]]] = Append(@, arg'[t])]
               ELSE UNCHANGED <<continuations, owner>>]_vars

\* C6 witness: a call returned kFutureAlreadyCompleted and the caller still
\* has the continuation
C6_Witness ==
  \E t \in Threads :
    /\ op[t] = "RegisterContinuation" /\ pc[t] = "ret"
    /\ ret[t] = kFutureAlreadyCompleted
    /\ owner[arg[t]] = "caller" /\ invoked[arg[t]] = 0
    /\ St(t) # NoState /\ continuations[St(t)] = <<>>

\* C7: IsFinished() returns false on an invalid future and, on a valid one,
\* true exactly when the SharedState is fulfilled; once it has returned true
\* for a SharedState it returns true on every later call on any future bound
\* to that SharedState.
C7_IsFinished ==
  [][\A t \in Threads :
       (ReturnsNow(t) /\ op'[t] = "IsFinished")
         => /\ ret'[t] = BoolToInt(IsValid(self'[t])
                                   /\ HasResult(shared_state_[self'[t]]))
            /\ (IsValid(self'[t]) /\ seen_finished[shared_state_[self'[t]]])
                 => ret'[t] = BoolToInt(TRUE)]_vars

\* C7 witness: IsFinished() has returned true on two futures bound to one
\* SharedState
C7_Witness ==
  \E t, u \in Threads :
    /\ op[t] = "IsFinished" /\ pc[t] = "ret" /\ ret[t] = BoolToInt(TRUE)
    /\ op[u] = "IsFinished" /\ pc[u] = "ret" /\ ret[u] = BoolToInt(TRUE)
    /\ self[t] # self[u]
    /\ St(t) # NoState /\ St(t) = St(u)

\* a SharedState made by a constructor of Future, not by a promise
Direct(s) == kind[s] # "free" /\ promise[s] = "none"

\* C8: a future constructed directly is valid and finished from the start:
\* its SharedState is fulfilled in every state, IsFinished() returns true,
\* Get() returns the constructor's value without having been suspended,
\* Wait() is not suspended and RegisterContinuation returns
\* kFutureAlreadyCompleted.
C8_ReadyFuture ==
  /\ \A s \in States :
       Direct(s) => /\ HasResult(s)
                    /\ kind[s] = "T" => result[s] = fulfilled_with[s]
                    /\ continuations[s] = <<>>
  /\ \A f \in Futures :
       (shared_state_[f] # NoState /\ Direct(shared_state_[f])) => IsValid(f)
  /\ \A t \in Threads :
       (op[t] # "Set" /\ St(t) # NoState /\ Direct(St(t)))
         => /\ ~waited[t]
            /\ pc[t] # "wait_blocked"
            /\ pc[t] = "ret" =>
                 CASE op[t] = "IsFinished" -> ret[t] = BoolToInt(TRUE)
                   [] op[t] = "Get" -> ret[t] = fulfilled_with[St(t)]
                   [] op[t] = "RegisterContinuation" ->
                        ret[t] = kFutureAlreadyCompleted
                   [] OTHER -> TRUE

\* C8 witness: Get() on a directly constructed future has returned its value
\* and RegisterContinuation on it has returned kFutureAlreadyCompleted
C8_Witness ==
  \E t, u \in Threads :
    /\ op[t] = "Get" /\ pc[t] = "ret"
    /\ St(t) # NoState /\ Direct(St(t))
    /\ ret[t] = fulfilled_with[St(t)] /\ ret[t] \in Values
    /\ op[u] = "RegisterContinuation" /\ pc[u] = "ret" /\ St(u) = St(t)

\* C9: when Wait() has returned (to its caller or to Get()), the SharedState
\* has been fulfilled, and Get() returns the value of the fulfilment.
C9_WaitAfterFulfilment ==
  [][\A t \in Threads :
       /\ (pc'[t] # pc[t] /\ pc[t] \in {"wait_await", "wait_blocked"}
                          /\ pc'[t] \in {"get_value", "ret"})
            => /\ fulfil_count[St(t)] = 1
               /\ HasResult(St(t))
       /\ (ReturnsNow(t) /\ op'[t] = "Get")
            => /\ fulfil_count[St(t)] = 1
               /\ ret'[t] \in Values
               /\ ret'[t] = fulfilled_with[St(t)]]_vars

\* C9 witness: a Get() that was suspended has returned the promise's value
C9_Witness ==
  \E t \in Threads :
    /\ op[t] = "Get" /\ pc[t] = "ret" /\ waited[t]
    /\ St(t) # NoState /\ promise[St(t)] # "none"
    /\ ret[t] = fulfilled_with[St(t)] /\ ret[t] \in Values


\* the part of the system that waiting depends on: promises and futures are
\* made and copied, threads wait, fulfil and register continuations (the
\* one member function that holds the mutex over more than one step)
WaitStep(t) ==
  \/ RegisterContinuationCheck(t)
  \/ RegisterContinuationEmplace(t)
  \/ WaitAwait(t)
  \/ WaitWake(t)
  \/ GetValue(t)
  \/ PromiseSetFulfill(t)
  \/ PromiseSetInvoke(t)

WaitNext ==
  \/ \E k \in {"T", "void"} : PromiseCtor(k)
  \/ \E v \in InputValues : FutureCtor(v)
  \/ \E f \in Futures : FutureCopy(f)
  \/ \E t \in Threads, f \in Futures, c \in Conts : CallRegisterContinuation(t, f, c)
  \/ \E t \in Threads, f \in Futures : CallWait(t, f)
  \/ \E t \in Threads, f \in Futures : CallGet(t, f)
  \/ \E t \in Threads, s \in States, v \in InputValues \cup {NoValue} : CallPromiseSet(t, s, v)
  \/ \E t \in Threads : WaitStep(t)

\* the threads are scheduled fairly: a member function that can take its
\* next step eventually takes it
WaitSpec == Init /\ [][WaitNext]_vars /\ \A t \in Threads : WF_vars(WaitStep(t))

\* a thread inside Wait(), by itself or as the first part of Get()
InWait(t) == pc[t] \in {"wait_await", "wait_blocked"}

\* C10 (under WaitSpec): with fair scheduling, a thread that is inside Wait() (or Get()) on a
\* future whose SharedState is fulfilled, whether it entered before or after
\* the fulfilment, eventually returns, unless the process is aborted
\* meanwhile.
C10_WaitersReturn ==
  \A t \in Threads :
    (InWait(t) /\ HasResult(St(t))) ~> (pc[t] = "ret" \/ aborted)

\* C10 witness: a Wait() that was suspended before the fulfilment has
\* returned after it
C10_Witness ==
  \E t, u \in Threads :
    /\ op[t] = "Wait" /\ pc[t] = "ret" /\ waited[t]
    /\ op[u] = "Set" /\ self[u] = St(t) /\ pc[u] \in {"set_invoke", "ret"}

\* C11: a call of Wait() or Get() on an invalid future (one that was moved
\* from) goes to the fatal state in its first step: the process is aborted,
\* the call is never suspended and never returns a value.
C11_InvalidWaitFatal ==
  [][\A t \in Threads :
       /\ (Entered(t) /\ op'[t] \in {"Wait", "Get"} /\ ~IsValid(self'[t]))
            => /\ pc'[t] = "fatal"
               /\ aborted'
               /\ ~waited'[t]
       /\ pc[t] = "fatal"
            => /\ pc'[t] = "fatal"
               /\ ret'[t] = ret[t]
               /\ waited'[t] = waited[t]
               /\ aborted']_vars

\* C11 witness: Get() was called on a moved-from future and the process died
C11_Witness ==
  \E t \in Threads, g \in Futures :
    /\ op[t] = "Get" /\ pc[t] = "fatal" /\ aborted
    /\ handle[self[t]] = "live" /\ shared_state_[self[t]] = NoState
    /\ origin[g] = [how |-> "move", of |-> self[t]]

\* C12: the step in which Get() reads the value leaves the SharedState as it
\* is (the value is not consumed), and the value returned is the one the
\* SharedState was fulfilled with, the same that every earlier Get() on a
\* future bound to that SharedState has returned, whatever the thread and
\* whichever copy or GetFuture() result the future is.
C12_GetRepeatable ==
  [][\A t \in Threads :
       (pc[t] = "get_value" /\ pc'[t] # pc[t])
         => /\ UNCHANGED sharedVars
            /\ pc'[t] = "ret"
            /\ ret'[t] \in Values
            /\ ret'[t] = fulfilled_with[St(t)]
            /\ \A u \in Threads :
                 (u # t /\ op[u] = "Get" /\ pc[u] = "ret" /\ St(u) = St(t))
                   => ret[u] = ret'[t]]_vars

\* C12 witness: two threads have called Get() on a future of a promise and
\* have got the same value, which is still stored
C12_Witness ==
  \E t, u \in Threads :
    /\ t # u
    /\ op[t] = "Get" /\ pc[t] = "ret"
    /\ op[u] = "Get" /\ pc[u] = "ret"
    /\ St(t) # NoState /\ St(t) = St(u)
    /\ origin[self[t]].how = "promise"
    /\ ret[t] = ret[u] /\ ret[t] = result[St(t)] /\ ret[t] \in Values

\* a SharedState whose promise was destroyed without having fulfilled it
Abandoned(s) == promise[s] = "destroyed" /\ fulfil_count[s] = 0

\* C13: the destruction of an unfulfilled promise is silent (no fatal state);
\* from then on, in every state, its SharedState is not fulfilled, every
\* future bound to it is valid, IsFinished() on such a future returns false
\* and no continuation registered in it has been invoked.
C13_AbandonedPromise ==
  [][\A s \in States :
       /\ (promise[s] = "alive" /\ promise'[s] = "destroyed")
            => aborted' = aborted
       /\ Abandoned(s) => Abandoned(s)'
       /\ Abandoned(s)'
            => /\ ~HasResultNext(s)
               /\ \A f \in Futures :
                    (handle'[f] = "live" /\ shared_state_'[f] = s) => IsValid(f)'
               /\ \A c \in Conts : reg'[c] = s => invoked'[c] = 0
               /\ \A t \in Threads :
                    (ReturnsNow(t) /\ op'[t] = "IsFinished"
                                   /\ shared_state_[self'[t]] = s)
                      => ret'[t] = BoolToInt(FALSE)]_vars

\* C13 witness: the promise is gone unfulfilled, a continuation is still
\* registered, and IsFinished() on the one future left has returned false
C13_Witness ==
  \E s \in States, t \in Threads, c \in Conts :
    /\ Abandoned(s)
    /\ reg[c] = s /\ invoked[c] = 0 /\ owner[c] = "state"
    /\ op[t] = "IsFinished" /\ pc[t] = "ret" /\ ret[t] = BoolToInt(FALSE)
    /\ shared_state_[self[t]] = s /\ IsValid(self[t])

\* C14: a live Future is valid exactly when its shared_state_ is not empty. A
\* copy is valid iff its source is, and leaves the source as it is; a move
\* hands the source's validity to the new Future and leaves the source
\* invalid. Nothing else changes the validity of a Future: no fulfilment, no
\* destruction of the promise or of another Future.
C14_IsValid ==
  [][\A f \in Futures :
       /\ handle'[f] = "live" => (IsValid(f)' <=> shared_state_'[f] # NoState)
       /\ \A g \in Futures :
            (handle[g] = "unborn" /\ handle'[g] = "live" /\ origin'[g].of = f)
              => CASE origin'[g].how = "copy" ->
                        IsValid(g)' = IsValid(f) /\ IsValid(f)' = IsValid(f)
                   [] origin'[g].how = "move" ->
                        IsValid(g)' = IsValid(f) /\ ~IsValid(f)'
                   [] OTHER -> TRUE
       /\ (handle[f] = "live" /\ handle'[f] = "live" /\ IsValid(f)' # IsValid(f))
            => \E g \in Futures :
                 /\ handle[g] = "unborn"
                 /\ origin'[g] = [how |-> "move", of |-> f]]_vars

\* C14 witness: a moved-from future is invalid; the future it was moved to
\* is valid after the fulfilment and after the promise was destroyed
C14_Witness ==
  \E f, g \in Futures :
    /\ origin[g] = [how |-> "move", of |-> f]
    /\ handle[f] = "live" /\ ~IsValid(f)
    /\ handle[g] = "live" /\ IsValid(g)
    /\ HasResult(shared_state_[g])
    /\ promise[shared_state_[g]] = "destroyed"

\* C15 as claimed: a default-constructed Future is invalid, and IsFinished()
\* returns false for it.
C15_DefaultInvalid ==
  \A f \in Futures :
    (handle[f] = "live" /\ origin[f].how = "default")
      => /\ ~IsValid(f)
         /\ \A t \in Threads :
              (op[t] = "IsFinished" /\ pc[t] = "ret" /\ self[t] = f)
                => ret[t] = BoolToInt(FALSE)

\* C15, amended: a default-constructed Future is a completed future. It is
\* valid and finished from its construction on, as long as it is not moved
\* from, and IsFinished() returns true for it.
C15_DefaultCompleted ==
  [][\A f \in Futures :
       /\ (handle[f] = "unborn" /\ handle'[f] = "live"
                                /\ origin'[f].how = "default")
            => (IsValid(f) /\ HasResult(shared_state_[f]))'
       /\ (handle[f] = "live" /\ origin[f].how = "default"
                              /\ shared_state_[f] # NoState)
            => /\ IsValid(f) /\ HasResult(shared_state_[f])
               /\ \A t \in Threads :
                    (ReturnsNow(t) /\ op'[t] = "IsFinished" /\ self'[t] = f)
                      => ret'[t] = BoolToInt(TRUE)]_vars

\* C15 witness: IsFinished() has returned true on a default-constructed Future
C15_Witness ==
  \E t \in Threads :
    /\ op[t] = "IsFinished" /\ pc[t] = "ret" /\ ret[t] = BoolToInt(TRUE)
    /\ handle[self[t]] = "live" /\ origin[self[t]].how = "default"
    /\ IsValid(self[t])

\* a SharedState made by Schedule(functor)
Scheduled(s) == functor[s] # NoValue /\ after[s] = NoState

\* this step is the event loop taking the action of SharedState s from the
\* head of the queue and executing it on the main thread
LoopRuns(s) ==
  /\ executor = "alive"
  /\ queue # <<>>
  /\ Head(queue) \in {FunctionWrapper(s, x) : x \in Values \cup {NoValue}}
  /\ queue' = Tail(queue)
  /\ Free(MainThread)
  /\ pc'[MainThread] = "set_fulfill"
  /\ \A t \in Threads \ {MainThread} : pc'[t] = pc[t] /\ op'[t] = op[t]

\* C16: Schedule(functor) returns in one step, without waiting, a valid
\* future that is not finished, and has put one action on the queue; the
\* functor is called only by the event loop executing that action, at most
\* once; the future is finished only after that, fulfilled exactly once, with
\* the value the functor returns.
C16_Schedule ==
  [][/\ \A t \in Threads \ {MainThread} :
          (Free(t) /\ calls' = calls + 1 /\ op'[t] = "Schedule"
                   /\ handle[self'[t]] = "unborn")
            => /\ pc'[t] = "ret"
               /\ ret'[t] = self'[t]
               /\ ~waited'[t]
               /\ handle'[ret'[t]] = "live"
               /\ Len(queue') = Len(queue) + 1
               /\ \E g \in Futures :
                    /\ g = ret'[t]
                    /\ (IsValid(g) /\ ~HasResult(shared_state_[g]))'
                    /\ (Scheduled(shared_state_[g]))'
     /\ \A s \in States :
          (Scheduled(s))'
            => /\ runs'[s] <= 1
               /\ fulfil_count'[s] <= 1
               /\ runs'[s] # runs[s] => LoopRuns(s)
               /\ HasResultNext(s)
                    => /\ runs'[s] = 1
                       /\ fulfil_count'[s] = 1
                       /\ result'[s] = functor'[s]]_vars

\* C16 witness: Get() on the future of Schedule was suspended and has
\* returned the functor's value after the event loop executed the action
C16_Witness ==
  \E t \in Threads :
    /\ op[t] = "Get" /\ pc[t] = "ret" /\ waited[t]
    /\ origin[self[t]].how = "schedule"
    /\ St(t) # NoState /\ Scheduled(St(t))
    /\ runs[St(t)] = 1
    /\ ret[t] = functor[St(t)]

\* the action of SharedState s is on the queue of the executor
Queued(s) == \E i \in 1..Len(queue) : queue[i].promise = s

\* C17: for a SharedState made by ScheduleAfter(future, functor), in every
\* state: the functor has not been called, its action is not on the queue
\* and the resulting future is not fulfilled, unless the source future is
\* fulfilled.
C17_AfterSource ==
  \A s \in States :
    (after[s] # NoState /\ ~HasResult(after[s]))
      => /\ runs[s] = 0
         /\ ~Queued(s)
         /\ ~HasResult(s)
         /\ \A c \in Conts : closure[c] = s => invoked[c] = 0

\* C17 witness: the continuation was registered before the source was
\* fulfilled, and the functor has been called after the fulfilment
C17_Witness ==
  \E s \in States, c \in Conts :
    /\ after[s] # NoState
    /\ closure[c] = s /\ reg[c] = after[s] /\ invoked[c] = 1
    /\ runs[s] = 1
    /\ HasResult(after[s])

\* C18: the functor given to ScheduleAfter is called only in a step of the
\* event loop that takes its action from the head of the executor's queue;
\* no step of the thread that fulfils the source future and no step of the
\* thread inside ScheduleAfter calls it, and the continuation called directly
\* for an already completed source only schedules the action.
C18_OnlyFromQueue ==
  [][\A s \in States :
       /\ (after'[s] # NoState /\ runs'[s] # runs[s])
            => /\ LoopRuns(s)
               /\ runs'[s] = runs[s] + 1
       /\ \A t \in Threads :
            (pc[t] = "after_direct" /\ pc'[t] # pc[t] /\ closure[arg[t]] = s)
              => /\ runs' = runs
                 /\ executor = "alive"
                 /\ queue' = Append(queue, FunctionWrapper(s, result[St(t)]))]_vars

\* C18 witness: the source was already completed when ScheduleAfter was
\* called, and the functor has been called by the event loop
C18_Witness ==
  \E t \in Threads, s \in States :
    /\ op[t] = "ScheduleAfter" /\ pc[t] = "ret"
    /\ ret[t] = kFutureAlreadyCompleted
    /\ closure[arg[t]] = s /\ after[s] # NoState
    /\ runs[s] = 1

\* a SharedState made by ScheduleAfter whose executor is gone, its functor not
\* called and its promise not fulfilled
Orphan(s) ==
  /\ after[s] # NoState
  /\ executor = "destroyed"
  /\ runs[s] = 0
  /\ fulfil_count[s] = 0
  /\ ~HasResult(s)
  /\ ~Queued(s)

\* C19: when the executor is destroyed while the source future of a
\* ScheduleAfter is not fulfilled, the resulting SharedState is an orphan and
\* stays one in every later step: the functor is never called, the promise
\* never fulfilled, IsFinished() on the resulting future returns false; and
\* the later fulfilment of the source, which invokes the continuation, enters
\* no fatal state.
C19_ExecutorGone ==
  [][\A s \in States :
       /\ (after[s] # NoState /\ ~HasResult(after[s])
              /\ executor = "alive" /\ executor' = "destroyed")
            => Orphan(s)'
       /\ Orphan(s)
            => /\ Orphan(s)'
               /\ \A t \in Threads :
                    (ReturnsNow(t) /\ op'[t] = "IsFinished"
                                   /\ shared_state_[self'[t]] = s)
                      => ret'[t] = BoolToInt(FALSE)
               /\ \A t \in Threads :
                    (op[t] = "Set" /\ self[t] = after[s] /\ fulfil_count[after[s]] <= 1
                       /\ \/ pc[t] = "set_fulfill" /\ ~HasResult(after[s])
                          \/ pc[t] = "set_invoke"
                       /\ (pc'[t] # pc[t] \/ drained'[t] # drained[t]))
                      => aborted' = aborted]_vars

\* C19 witness: the executor was destroyed, then the source was fulfilled
\* and the continuation invoked; the resulting future is still pending
C19_Witness ==
  \E s \in States, c \in Conts :
    /\ Orphan(s)
    /\ closure[c] = s /\ reg[c] = after[s] /\ invoked[c] = 1
    /\ HasResult(after[s])
    /\ FulfilDone(after[s])
    /\ ~aborted

\* the part of the system that ScheduleAfter depends on: source futures made
\* by promises, by Schedule or already completed, ScheduleAfter, the
\* fulfilment of the sources, the event loop and the executor's destruction
AfterStep(t) ==
  \/ RegisterContinuationCheck(t)
  \/ RegisterContinuationEmplace(t)
  \/ ScheduleAfterCallDirectly(t)
  \/ PromiseSetFulfill(t)
  \/ PromiseSetInvoke(t)

AfterNext ==
  \/ \E k \in {"T", "void"} : PromiseCtor(k)
  \/ \E v \in InputValues : FutureCtor(v)
  \/ \E t \in Threads, v \in InputValues : CallSchedule(t, v)
  \/ \E t \in Threads, f \in Futures, c \in Conts, v \in InputValues :
       CallScheduleAfter(t, f, c, v)
  \/ \E t \in Threads, s \in States, v \in InputValues \cup {NoValue} : CallPromiseSet(t, s, v)
  \/ ExecutorDtor
  \/ LoopRun
  \/ \E t \in Threads : AfterStep(t)

\* the threads are scheduled fairly, and the event loop of a live executor
\* keeps draining its queue
AfterSpec ==
  /\ Init
  /\ [][AfterNext]_vars
  /\ \A t \in Threads : WF_vars(AfterStep(t))
  /\ WF_vars(LoopRun)

\* the functor of SharedState s was called once and its promise fulfilled
\* once, with the value the functor returned
RanAndFulfilled(s) ==
  /\ runs[s] = 1
  /\ fulfil_count[s] = 1
  /\ result[s] = functor[s]

\* C20 (under AfterSpec): for every SharedState made by ScheduleAfter, once
\* the source future is fulfilled the functor is eventually called and the
\* resulting promise eventually fulfilled with the functor's value, unless
\* the executor is destroyed or the process aborted meanwhile; and in every
\* state the functor has been called at most once and the promise fulfilled
\* at most once.
C20_AfterRuns ==
  /\ \A s \in States :
       (after[s] # NoState /\ HasResult(after[s]))
         ~> (RanAndFulfilled(s) \/ executor = "destroyed" \/ aborted)
  /\ [](\A s \in States :
          after[s] # NoState => runs[s] <= 1 /\ fulfil_count[s] <= 1)

\* C20 witness: the continuation was registered, the source fulfilled, the
\* functor called by the event loop and the resulting promise fulfilled
C20_Witness ==
  \E s \in States, c \in Conts :
    /\ after[s] # NoState
    /\ closure[c] = s /\ reg[c] = after[s]
    /\ executor = "alive"
    /\ RanAndFulfilled(s)
    /\ FulfilDone(s)

\* ---- continuations and the value they are given --------------------------
\* the part of the system that the continuations of a Future<T> depend on:
\* futures made by promises or already completed, RegisterContinuation,
\* ScheduleAfter, the fulfilment and the event loop
ContNext ==
  \/ \E k \in {"T"} : PromiseCtor(k)
  \/ \E v \in InputValues : FutureCtor(v)
  \/ \E t \in Threads, f \in Futures, c \in Conts : CallRegisterContinuation(t, f, c)
  \/ \E t \in Threads, f \in Futures, c \in Conts, v \in InputValues :
       CallScheduleAfter(t, f, c, v)
  \/ \E t \in Threads, s \in States, v \in InputValues : CallPromiseSet(t, s, v)
  \/ LoopRun
  \/ \E t \in Threads : AfterStep(t)

ContSpec == Init /\ [][ContNext]_vars

\* the SharedState whose result continuation c is given: the one it was
\* stored in, or the source of the ScheduleAfter that called it directly
Source(c) ==
  IF reg[c] # NoState THEN reg[c]
  ELSE IF closure[c] # NoState THEN after[closure[c]]
  ELSE NoState

\* C21: every step that calls a continuation of a Future<T> calls it for the
\* first time and passes the value the future was fulfilled with; a
\* continuation made by ScheduleAfter puts that value into the action it
\* schedules, and the event loop, which calls the functor at most once, takes
\* the action with that value.
C21_ContinuationValue ==
  [][/\ \A c \in Conts :
          (invoked'[c] # invoked[c] /\ Source(c) # NoState /\ kind[Source(c)] = "T")
            => /\ invoked[c] = 0
               /\ invoked'[c] = 1
               /\ fulfil_count[Source(c)] = 1
               /\ fulfilled_with[Source(c)] # NoValue
               /\ observed'[c] = fulfilled_with[Source(c)]
               /\ closure[c] # NoState
                    => queue' = Append(queue, FunctionWrapper(closure[c],
                                                              fulfilled_with[Source(c)]))
     /\ \A s \in States :
          (after[s] # NoState /\ kind[after[s]] = "T" /\ runs'[s] # runs[s])
            => /\ runs[s] = 0
               /\ runs'[s] = 1
               /\ Head(queue) = FunctionWrapper(s, fulfilled_with[after[s]])]_vars

\* C21 witness: a continuation registered before the fulfilment and the
\* functor of a ScheduleAfter on the same future have each been called once,
\* with the value the future was fulfilled with
C21_Witness ==
  \E c \in Conts, d \in Conts, s \in States :
    /\ kind[s] = "T"
    /\ reg[c] = s /\ closure[c] = NoState
    /\ reg[d] = s /\ closure[d] # NoState
    /\ invoked[c] = 1 /\ invoked[d] = 1
    /\ fulfilled_with[s] # NoValue
    /\ fulfilled_with[s] # functor[closure[d]]
    /\ observed[c] = fulfilled_with[s] /\ observed[d] = fulfilled_with[s]
    /\ runs[closure[d]] = 1

\* ---- Future::Then and MainThreadExecutor::ScheduleAfter -------------------
\* futures with and without payload, made by promises or already completed,
\* Then and ScheduleAfter on them, the fulfilment, the event loop and the
\* executor's destruction
ThenNext ==
  \/ \E k \in {"T", "void"} : PromiseCtor(k)
  \/ \E v \in InputValues : FutureCtor(v)
  \/ \E t \in Threads, f \in Futures, c \in Conts, v \in InputValues :
       CallScheduleAfter(t, f, c, v)
  \/ \E t \in Threads, f \in Futures, c \in Conts, v \in InputValues :
       CallThen(t, f, c, v)
  \/ \E t \in Threads, s \in States, v \in InputValues \cup {NoValue} : CallPromiseSet(t, s, v)
  \/ ExecutorDtor
  \/ LoopRun
  \/ \E t \in Threads : AfterStep(t)

ThenSpec == Init /\ [][ThenNext]_vars

\* thread t enters member function o in this step
Calls(t, o) == Free(t) /\ calls' = calls + 1 /\ pc'[t] \notin {"idle", "ret"} /\ op'[t] = o

\* what a call that runs ScheduleAfter, with continuation c on SharedState s,
\* has done when it returns r: stored c and scheduled nothing, or found the
\* result and scheduled the function wrapper with it on the live executor;
\* the resulting future is valid and not finished
AfterOutcome(t, c, s, r) ==
  /\ r \in {kSuccessfullyRegistered, kFutureAlreadyCompleted}
  /\ r = kSuccessfullyRegistered
       => /\ ~HasResult(s)
          /\ continuations'[s] = Append(continuations[s], c)
          /\ queue' = queue
  /\ r = kFutureAlreadyCompleted
       => /\ HasResult(s)
          /\ continuations'[s] = continuations[s]
          /\ queue' = IF executor = "alive"
                      THEN Append(queue, FunctionWrapper(closure[c], result[s]))
                      ELSE queue
  /\ \E g \in Futures :
       /\ origin[g] = [how |-> "after", of |-> self[t]]
       /\ shared_state_[g] = closure[c]
       /\ (IsValid(g) /\ ~HasResult(closure[c]))'

IfSuccessOps == {"ScheduleAfterIfSuccess", "ThenIfSuccess"}

\* nothing has been constructed yet
Unbuilt == \A s \in States : kind[s] = "free"

\* the future f is the end of the chain: no step has been attached to it
Tip(f) ==
  /\ shared_state_[f] # NoState
  /\ ~\E s \in States : after[s] = shared_state_[f]

\* a thread is inside the call that attaches a step
Building == \E u \in Threads : ~Free(u) /\ op[u] \in IfSuccessOps

\* the producer has not called Set on the promise of SharedState s
Unset(s) ==
  /\ fulfil_count[s] = 0
  /\ ~\E u \in Threads : ~Free(u) /\ op[u] = "Set" /\ self[u] = s

\* the outcome of SharedState s is a failure
Failed(s) == HasResult(s) /\ IsError(result[s])

\* the outcome of SharedState s is a value
Succeeded(s) == HasResult(s) /\ ~IsError(result[s])

\* SharedState s is the one of a step whose source has failed
SourceFailed(s) == IF after[s] = NoState THEN FALSE ELSE Failed(after[s])

\* one step on a future: ScheduleAfterIfSuccess or ThenIfSuccess on the
\* future of a promise, on a completed future or on the future of an earlier
\* step, from any thread and at any moment; the promise is fulfilled with a
\* value or with a failure
IfSuccessNext ==
  \/ \E k \in {"T"} : Unbuilt /\ PromiseCtor(k)
  \/ \E v \in InputOutcomes : Unbuilt /\ FutureCtor(v)
  \/ \E t \in Threads, f \in Futures, c \in Conts, v \in InputOutcomes :
       CallScheduleAfterIfSuccess(t, f, c, v)
  \/ \E t \in Threads, f \in Futures, c \in Conts, v \in InputOutcomes :
       CallThenIfSuccess(t, f, c, v)
  \/ \E t \in Threads, s \in States, v \in InputOutcomes :
       Unset(s) /\ CallPromiseSet(t, s, v)
  \/ LoopRun
  \/ \E t \in Threads : AfterStep(t)

IfSuccessSpec ==
  /\ Init
  /\ [][IfSuccessNext]_vars
  /\ \A t \in Threads : WF_vars(AfterStep(t))
  /\ WF_vars(LoopRun)

\* C22 (under IfSuccessSpec): when the future given to ScheduleAfterIfSuccess
\* or ThenIfSuccess finishes with a failure, the continuation is never called,
\* and the returned future eventually finishes, with that same failure and no
\* other outcome.
C22_FailureSkipsContinuation ==
  /\ [](\A s \in States :
          SourceFailed(s)
            => /\ runs[s] = 0
               /\ HasResult(s) => result[s] = result[after[s]])
  /\ \A s \in States :
       SourceFailed(s)
         ~> (SourceFailed(s) /\ HasResult(s) /\ result[s] = result[after[s]] /\ runs[s] = 0)

C22_Witness ==
  \E s \in States, c \in Conts :
    /\ after[s] # NoState
    /\ promise[after[s]] = "alive"
    /\ closure[c] = s
    /\ invoked[c] = 1
    /\ Failed(after[s])
    /\ ~IsError(functor[s])
    /\ result[s] = result[after[s]]
    /\ runs[s] = 0

\* a future returned by ThenIfSuccess has not yet been moved into its variable
Pending == \E g \in Futures : handle[g] = "live" /\ origin[g].how = "after" /\ origin[g].of # g

\* a chain f = f.ThenIfSuccess(..); f = f.ThenIfSuccess(..); built step by
\* step on the future of a promise or on a completed future; the producer
\* fulfils the promise once, at any moment, with a value or a failure, and the
\* functors return values or failures
ChainNext ==
  \/ \E k \in {"T"} : Unbuilt /\ PromiseCtor(k)
  \/ \E v \in InputOutcomes : Unbuilt /\ FutureCtor(v)
  \/ \E t \in Threads, f \in Futures, c \in Conts, v \in InputOutcomes :
       ~Building /\ ~Pending /\ Tip(f) /\ CallThenIfSuccess(t, f, c, v)
  \/ \E g \in Futures : FutureMoveAssign(origin[g].of, g)
  \/ \E t \in Threads, s \in States, v \in InputOutcomes :
       Unset(s) /\ CallPromiseSet(t, s, v)
  \/ LoopRun
  \/ \E t \in Threads : AfterStep(t)

\* the threads are scheduled fairly and the event loop keeps draining the
\* queue of the executor
ChainSpec ==
  /\ Init
  /\ [][ChainNext]_vars
  /\ \A t \in Threads : WF_vars(AfterStep(t))
  /\ WF_vars(LoopRun)

\* the steps the outcome of SharedState s has come through
RECURSIVE Ancestors(_)
Ancestors(s) == IF after[s] = NoState THEN {} ELSE {after[s]} \cup Ancestors(after[s])

\* everything the outcomes known so far call for has happened: after a
\* failure the step has passed the failure on without calling its functor,
\* and after a value the functor has been called once and its outcome is the
\* outcome of the step
ChainSettled ==
  \A s \in States :
    /\ (after[s] # NoState /\ Failed(after[s]))
         => (runs[s] = 0 /\ HasResult(s) /\ result[s] = result[after[s]])
    /\ (after[s] # NoState /\ Succeeded(after[s]))
         => (runs[s] = 1 /\ HasResult(s) /\ result[s] = functor[s])

\* C23 (under ChainSpec): in a chain of ThenIfSuccess steps, a functor is
\* called at most once, and only after the functor of the step before it was
\* called and the outcome before it is a value; from the first failure on, be
\* it the outcome of the source or of a functor, no later functor is called
\* and every later future finishes with that failure; and every step whose
\* source has an outcome eventually has its own: the functors of a chain
\* without failure are all called once, in the order of the chain.
C23_ChainOfThenIfSuccess ==
  /\ [](\A s \in States :
          after[s] # NoState =>
            /\ runs[s] <= 1
            /\ runs[s] = 1 =>
                 /\ Succeeded(after[s])
                 /\ after[after[s]] # NoState => runs[after[s]] = 1
            /\ (HasResult(s) /\ runs[s] = 1) => result[s] = functor[s]
            /\ \A r \in Ancestors(s) :
                 (Failed(r) /\ (after[r] = NoState \/ ~Failed(after[r])))
                   => /\ runs[s] = 0
                      /\ HasResult(s) => result[s] = result[r])
  /\ []<>ChainSettled

C23_Witness ==
  \E s1, s2, s3 \in States :
    /\ after[s1] = NoState
    /\ after[s2] = s1
    /\ after[s3] = s2
    /\ Succeeded(s1)
    /\ runs[s2] = 1
    /\ IsError(functor[s2])
    /\ ~IsError(functor[s3])
    /\ runs[s3] = 0
    /\ result[s3] = functor[s2]

\* ---- MainThreadExecutor::WaitFor, WaitForAll, AbortWaitingJobs -----------
\* the thread is blocked inside WaitFor or WaitForAll
InFlight(t) == pc[t] = "waitfor_blocked"

\* every future of the set is finished
AllFinished(F) == \A f \in F : HasResult(shared_state_[f])

\* WaitFor / WaitForAll starts: the calling thread blocks on the futures F,
\* with a timer when a timeout is given
WaitForBegin(t, F, timed) ==
  /\ executor = "alive"
  /\ F # {}
  /\ \A f \in F : handle[f] = "live" /\ IsValid(f) /\ kind[shared_state_[f]] = "void"
  /\ Goto(t, "waitfor_blocked")
  /\ waitjob' = [waitjob EXCEPT ![t] =
                   [futures |-> F,
                    timeout |-> IF timed THEN "armed" ELSE "none",
                    abort |-> FALSE]]
  /\ UNCHANGED <<sharedVars, mutex, handleVars, drained, owner, invoked,
                 aborted, histVars, execVars, if_success, contVars, appVars>>

\* thread t calls WaitFor(future) or WaitFor(future, timeout)
CallWaitFor(t, f, timed) ==
  /\ Enter(t, "WaitFor", f, 0)
  /\ WaitForBegin(t, {f}, timed)

\* thread t calls WaitForAll(futures) or WaitForAll(futures, timeout)
CallWaitForAll(t, F, timed) ==
  /\ Enter(t, "WaitForAll", 0, 0)
  /\ WaitForBegin(t, F, timed)

\* the timeout of the call thread t is blocked in elapses
WaitForTimeout(t) ==
  /\ ~aborted
  /\ InFlight(t)
  /\ waitjob[t].timeout = "armed"
  /\ waitjob' = [waitjob EXCEPT ![t].timeout = "elapsed"]
  /\ UNCHANGED <<sharedVars, mutex, handleVars, threadVars, owner, invoked,
                 aborted, calls, histVars, execVars, if_success, contVars, appVars>>

\* the blocked call as it would be if it looked at the timer before it looked
\* at the futures
WaitForReturn_TimerFirst(t) ==
  /\ ~aborted
  /\ InFlight(t)
  /\ IF waitjob[t].abort
     THEN Return(t, kAborted)
     ELSE IF waitjob[t].timeout = "elapsed"
     THEN Return(t, kTimedOut)
     ELSE AllFinished(waitjob[t].futures) /\ Return(t, kCompleted)
  /\ UNCHANGED <<sharedVars, mutex, handleVars, op, self, arg, drained, owner,
                 invoked, aborted, calls, histVars, execVars, moreVars, contVars>>

\* the blocked call wakes up and returns: aborted, or all futures finished,
\* or the timeout elapsed
WaitForReturn(t) ==
  /\ ~aborted
  /\ InFlight(t)
  /\ IF waitjob[t].abort
     THEN Return(t, kAborted)
     ELSE IF AllFinished(waitjob[t].futures)
     THEN Return(t, kCompleted)
     ELSE waitjob[t].timeout = "elapsed" /\ Return(t, kTimedOut)
  /\ UNCHANGED <<sharedVars, mutex, handleVars, op, self, arg, drained, owner,
                 invoked, aborted, calls, histVars, execVars, moreVars, contVars>>

\* AbortWaitingJobs as it would be if it also threw away the scheduled actions
CallAbortWaitingJobs_DropsActions ==
  /\ ~aborted
  /\ executor = "alive"
  /\ calls < MaxCalls
  /\ calls' = calls + 1
  /\ waitjob' = [t \in Threads |->
                   IF InFlight(t) THEN [waitjob[t] EXCEPT !.abort = TRUE]
                   ELSE waitjob[t]]
  /\ queue' = <<>>
  /\ UNCHANGED <<sharedVars, mutex, handleVars, threadVars, owner, invoked,
                 aborted, histVars, executor, functor, after, closure, runs,
                 if_success, contVars, appVars>>

\* AbortWaitingJobs(): every call in flight is told to return kAborted
CallAbortWaitingJobs ==
  /\ ~aborted
  /\ executor = "alive"
  /\ calls < MaxCalls
  /\ calls' = calls + 1
  /\ waitjob' = [t \in Threads |->
                   IF InFlight(t) THEN [waitjob[t] EXCEPT !.abort = TRUE]
                   ELSE waitjob[t]]
  /\ UNCHANGED <<sharedVars, mutex, handleVars, threadVars, owner, invoked,
                 aborted, histVars, execVars, if_success, contVars, appVars>>

WaitForStep(t) ==
  \/ WaitForReturn(t)
  \/ PromiseSetFulfill(t)
  \/ PromiseSetInvoke(t)

\* threads wait for futures of promises that a producer fulfils once or
\* never fulfils, with and without timeout, while tasks are scheduled and run and
\* AbortWaitingJobs is called at any moment
WaitForNext ==
  \/ \E k \in {"void"} : PromiseCtor(k)
  \/ \E t \in Threads, v \in InputValues : CallSchedule(t, v)
  \/ \E t \in Threads, f \in Futures, timed \in BOOLEAN : CallWaitFor(t, f, timed)
  \/ \E t \in Threads, F \in SUBSET Futures, timed \in BOOLEAN : CallWaitForAll(t, F, timed)
  \/ \E t \in Threads : WaitForTimeout(t)
  \/ CallAbortWaitingJobs
  \/ \E t \in Threads, s \in States : Unset(s) /\ CallPromiseSet(t, s, NoValue)
  \/ LoopRun
  \/ \E t \in Threads : WaitForStep(t)

\* a blocked call that can return does return; nothing makes a producer
\* fulfil its promise
WaitForSpec ==
  /\ Init
  /\ [][WaitForNext]_vars
  /\ \A t \in Threads : WF_vars(WaitForStep(t))

\* thread t returns from WaitFor or WaitForAll in this step
WaitForReturns(t) == InFlight(t) /\ pc'[t] = "ret"

\* C25 (under WaitForSpec): a WaitFor or WaitForAll call returns one of
\* kCompleted, kTimedOut and kAborted; it returns kCompleted only when every
\* future waited for is finished, kTimedOut only when it was called with a
\* timeout, the timeout has elapsed and a future is not finished, and kAborted
\* only when AbortWaitingJobs was called while the call was blocked.
C25_WaitResultCause ==
  [][\A t \in Threads :
       WaitForReturns(t) =>
         /\ ret'[t] \in {kCompleted, kTimedOut, kAborted}
         /\ ret'[t] = kCompleted => AllFinished(waitjob[t].futures)
         /\ ret'[t] = kTimedOut =>
              (waitjob[t].timeout = "elapsed" /\ ~AllFinished(waitjob[t].futures))
         /\ ret'[t] = kAborted => waitjob[t].abort]_vars

C25_Witness ==
  \E t, u \in Threads :
    /\ op[t] = "WaitFor" /\ pc[t] = "ret" /\ ret[t] = kTimedOut
    /\ waitjob[t].timeout = "elapsed"
    /\ op[u] = "WaitFor" /\ pc[u] = "ret" /\ ret[u] = kCompleted
    /\ waitjob[u].futures = waitjob[t].futures
    /\ AllFinished(waitjob[u].futures)

\* AbortWaitingJobs is called in this step
Aborts == calls' = calls + 1 /\ pc' = pc /\ handle' = handle

\* C26 (under WaitForSpec): a call of AbortWaitingJobs marks every WaitFor and
\* WaitForAll call in flight and changes neither the queue of scheduled
\* actions nor the number of times any task was run; a marked call
\* eventually returns, with kAborted, whether or not its futures are ever
\* fulfilled.
C26_AbortWaitingJobs ==
  /\ [][Aborts =>
          /\ \A t \in Threads : InFlight(t) => waitjob'[t].abort
          /\ queue' = queue
          /\ runs' = runs
          /\ UNCHANGED <<sharedVars, executor>>]_vars
  /\ [][\A t \in Threads :
          (InFlight(t) /\ waitjob[t].abort /\ pc'[t] # pc[t])
            => (pc'[t] = "ret" /\ ret'[t] = kAborted)]_vars
  /\ \A t \in Threads :
       (InFlight(t) /\ waitjob[t].abort)
         ~> (pc[t] = "ret" /\ ret[t] = kAborted /\ waitjob[t].abort)

C26_Witness ==
  \E t \in Threads :
    /\ op[t] = "WaitForAll"
    /\ pc[t] = "ret"
    /\ ret[t] = kAborted
    /\ waitjob[t].abort
    /\ waitjob[t].timeout = "none"
    /\ ~AllFinished(waitjob[t].futures)
    /\ queue # <<>>
    /\ \A s \in States : runs[s] = 0

\* ---- one callable at a time -----------------------------------------------
\* the executor is executing the callable of SharedState s: the event loop has
\* taken its function wrapper from the queue, and the wrapper, which calls the
\* functor and sets the promise, has not returned
Executing(s) == ~Free(MainThread) /\ op[MainThread] = "Set" /\ self[MainThread] = s

\* the step takes the function wrapper of SharedState s from the queue and
\* starts executing it
Starts(s) ==
  /\ queue # <<>>
  /\ Head(queue).promise = s
  /\ queue' = Tail(queue)
  /\ executor' = "alive"

ExecutorShutdown ==
  /\ ~aborted
  /\ executor = "alive"
  /\ \A t \in Threads : Free(t) \/ op[t] \notin {"Schedule"} \cup AfterOps
  /\ Free(MainThread)
  /\ executor' = "shutting_down"
  /\ UNCHANGED <<sharedVars, mutex, handleVars, threadVars, owner, invoked,
                 aborted, calls, histVars, queue, functor, after, closure, runs>>
  /\ UNCHANGED <<moreVars, contVars>>

\* the destructor ends: the actions still scheduled are gone with the executor
ExecutorStopped ==
  /\ ~aborted
  /\ executor = "shutting_down"
  /\ executor' = "destroyed"
  /\ queue' = <<>>
  /\ UNCHANGED <<sharedVars, mutex, handleVars, threadVars, owner, invoked,
                 aborted, calls, histVars, functor, after, closure, runs>>
  /\ UNCHANGED <<moreVars, contVars>>

\* TrySchedule as it would be if it called Schedule through the expired
\* pointer: the executor is being destroyed or is gone, the call is undefined
TrySchedule_NoLock(t, v) ==
  IF executor = "alive"
  THEN CallSchedule(t, v)
  ELSE /\ Enter(t, "TrySchedule", NoFuture, 0)
       /\ \/ /\ aborted' = TRUE
             /\ Goto(t, "fatal")
          \/ /\ UNCHANGED aborted
             /\ Return(t, NoFuture)
       /\ UNCHANGED <<sharedVars, mutex, handleVars, drained, owner, invoked,
                      histVars, execVars, moreVars, contVars>>

\* TrySchedule(executor, function_object): Schedule when executor.lock() gives
\* the executor, std::nullopt and nothing else when it has expired
TrySchedule(t, v) ==
  IF executor = "alive"
  THEN CallSchedule(t, v)
  ELSE /\ Enter(t, "TrySchedule", NoFuture, 0)
       /\ Return(t, NoFuture)
       /\ UNCHANGED <<sharedVars, mutex, handleVars, drained, owner, invoked,
                      aborted, histVars, execVars, moreVars, contVars>>

\* tasks and continuations are scheduled, by Schedule and ScheduleAfter while
\* the executor is owned and by TrySchedule at any time, promises are
\* fulfilled, and the executor is released and destroyed at any moment
LifeNext ==
  \/ \E k \in {"T"} : PromiseCtor(k)
  \/ \E t \in Threads, v \in InputValues : CallSchedule(t, v)
  \/ \E t \in Threads, v \in InputValues : TrySchedule(t, v)
  \/ \E t \in Threads, f \in Futures, c \in Conts, v \in InputValues :
       CallScheduleAfter(t, f, c, v)
  \/ \E t \in Threads, s \in States, v \in InputValues :
       Unset(s) /\ CallPromiseSet(t, s, v)
  \/ ExecutorShutdown
  \/ ExecutorStopped
  \/ LoopRun
  \/ \E t \in Threads : AfterStep(t)

LifeSpec == Init /\ [][LifeNext]_vars

\* Accepting, ShuttingDown, Stopped
Phase(e) == CASE e = "alive" -> 0 [] e = "shutting_down" -> 1 [] e = "destroyed" -> 2

\* the frame of thread t changes in this step
Moves(t) == <<pc[t], op[t], self[t], arg[t], ret[t]>>' # <<pc[t], op[t], self[t], arg[t], ret[t]>>

NonBlockingOps == {"Schedule", "ScheduleAfter", "RegisterContinuation"}

\* continuations are registered and tasks scheduled on futures whose promise
\* a producer fulfils at some moment, or never
NonBlockNext ==
  \/ \E k \in {"T"} : PromiseCtor(k)
  \/ \E t \in Threads, v \in InputValues : CallSchedule(t, v)
  \/ \E t \in Threads, f \in Futures, c \in Conts : CallRegisterContinuation(t, f, c)
  \/ \E t \in Threads, f \in Futures, c \in Conts, v \in InputValues :
       CallScheduleAfter(t, f, c, v)
  \/ \E t \in Threads, s \in States, v \in InputValues :
       Unset(s) /\ CallPromiseSet(t, s, v)
  \/ \E t \in Threads : AfterStep(t)

\* a thread inside a member function is scheduled fairly; nothing makes a
\* producer call Set, and the event loop is busy elsewhere
NonBlockSpec ==
  /\ Init
  /\ [][NonBlockNext]_vars
  /\ \A t \in Threads : WF_vars(AfterStep(t))

\* thread t is inside one of the three calls
InNonBlocking(t) == ~Free(t) /\ op[t] \in NonBlockingOps

\* thread t has returned from one of the three calls while neither the future
\* given to it nor the future returned by it is finished
ReturnedUnfinished(t) ==
  /\ pc[t] = "ret"
  /\ op[t] \in NonBlockingOps
  /\ op[t] = "Schedule" => ~HasResult(shared_state_[ret[t]])
  /\ op[t] = "RegisterContinuation" =>
       ret[t] = kSuccessfullyRegistered /\ ~HasResult(St(t))
  /\ op[t] = "ScheduleAfter" =>
       /\ ret[t] = kSuccessfullyRegistered
       /\ ~HasResult(St(t))
       /\ ~HasResult(closure[arg[t]])

\* C29 (under NonBlockSpec): Schedule, ScheduleAfter and RegisterContinuation
\* are never suspended waiting for a result; a call that finds the future
\* unfinished returns kSuccessfullyRegistered with the future still
\* unfinished; and a thread inside one of them always gets out, in
\* behaviours in which no promise is ever fulfilled as in the others.
C29_NeverBlocks ==
  /\ [](\A t \in Threads :
          op[t] \in NonBlockingOps
            => ~waited[t] /\ pc[t] \notin {"wait_await", "wait_blocked", "waitfor_blocked"})
  /\ [][\A t \in Threads :
          (InNonBlocking(t) /\ pc'[t] = "ret" /\ ~HasResult(St(t)))
            => (ReturnedUnfinished(t)' /\ fulfil_count' = fulfil_count)]_vars
  /\ \A t \in Threads : InNonBlocking(t) ~> (Free(t) \/ aborted)

C29_Witness ==
  \E t, u \in Threads :
    /\ t # u
    /\ ReturnedUnfinished(t) /\ op[t] = "ScheduleAfter"
    /\ ReturnedUnfinished(u) /\ op[u] = "RegisterContinuation"
    /\ \A s \in States : fulfil_count[s] = 0
    /\ \A v \in Threads : pc[v] \notin {"set_fulfill", "set_invoke"}

\* ---- continuations that call back into the future --------------------------
Callbacks == {"IsFinished", "Get", "RegisterContinuation"}

\* what the member function b returns when it is called on a future of
\* SharedState s whose mutex is free: IsFinished() the flag, Get() the value
\* once Await has seen it, RegisterContinuation() whether it stored the
\* continuation
CallbackResult(b, s) ==
  CASE b = "IsFinished" -> BoolToInt(HasResult(s))
    [] b = "Get" -> result[s]
    [] b = "RegisterContinuation" ->
         IF HasResult(s) THEN kFutureAlreadyCompleted ELSE kSuccessfullyRegistered

\* outside the guard: the next continuation taken out is invoked, and its
\* body calls b on the future that is invoking it; the call takes the mutex
\* of the SharedState, and Get() goes on only when Await sees the result
PromiseSetInvokeReentrant(t, b) ==
  /\ ~aborted
  /\ pc[t] = "set_invoke"
  /\ drained[t] # <<>>
  /\ closure[Head(drained[t])] = NoState
  /\ b = "Get" => (kind[St(t)] = "T" /\ AwaitCondition(St(t)))
  /\ MutexAcquirable(St(t))
  /\ invoked' = [invoked EXCEPT ![Head(drained[t])] = @ + 1]
  /\ owner' = [owner EXCEPT ![Head(drained[t])] = "gone"]
  /\ drained' = [drained EXCEPT ![t] = Tail(@)]
  /\ observed' = [observed EXCEPT ![Head(drained[t])] = result[St(t)]]
  /\ reply' = [reply EXCEPT ![Head(drained[t])] =
                 [call |-> b, ret |-> CallbackResult(b, St(t))]]
  /\ UNCHANGED <<sharedVars, mutex, handleVars, pc, op, self, arg, ret, aborted,
                 calls, histVars, execVars, moreVars>>

ReentrantStep(t) ==
  \/ RegisterContinuationCheck(t)
  \/ RegisterContinuationEmplace(t)
  \/ PromiseSetFulfill(t)
  \/ drained[t] = <<>> /\ PromiseSetInvoke(t)
  \/ \E b \in Callbacks : PromiseSetInvokeReentrant(t, b)

\* continuations that call IsFinished, Get or RegisterContinuation on their
\* future are registered by several threads while a producer fulfils the
\* promise
ReentrantNext ==
  \/ \E k \in {"T", "void"} : PromiseCtor(k)
  \/ \E t \in Threads, f \in Futures, c \in Conts : CallRegisterContinuation(t, f, c)
  \/ \E t \in Threads, s \in States, v \in InputValues \cup {NoValue} :
       Unset(s) /\ CallPromiseSet(t, s, v)
  \/ \E t \in Threads : ReentrantStep(t)

ReentrantSpec ==
  /\ Init
  /\ [][ReentrantNext]_vars
  /\ \A t \in Threads : WF_vars(ReentrantStep(t))

C31_ContinuationList ==
  /\ [](\A s \in States : HasResult(s) => continuations[s] = <<>>)
  /\ [][\A s \in States :
          continuations'[s] # continuations[s] =>
            /\ ~HasResult(s)
            /\ \/ /\ ~HasResultNext(s)
                  /\ \E c \in Conts : continuations'[s] = Append(continuations[s], c)
               \/ /\ HasResultNext(s)
                  /\ continuations'[s] = <<>>
                  /\ \E t \in Threads : drained'[t] = continuations[s]]_vars

C31_Witness ==
  \E s \in States, c \in Conts, t \in Threads :
    /\ reg[c] = s
    /\ invoked[c] = 1
    /\ HasResult(s)
    /\ continuations[s] = <<>>
    /\ op[t] = "RegisterContinuation" /\ pc[t] = "ret"
    /\ ret[t] = kFutureAlreadyCompleted
    /\ arg[t] # c
    /\ shared_state_[self[t]] = s

\* ---- who owns the executor --------------------------------------------------
\* the owners of the executor can release it: it is alive and no thread is
\* inside one of its member functions or executing one of its actions
Releasable ==
  /\ ~aborted
  /\ calls < MaxCalls
  /\ executor = "alive"
  /\ \A t \in Threads : Free(t) \/ op[t] \notin {"Schedule"} \cup AfterOps
  /\ Free(MainThread)

\* C32 (under ExecSpec): whatever continuations of ScheduleAfter are stored in
\* unfulfilled SharedStates and whatever futures exist, the executor can be
\* destroyed as soon as its owners can release it; and a continuation of
\* ScheduleAfter that is invoked after the destruction schedules nothing,
\* calls no functor, fulfils no promise and enters no fatal state.
C32_WeakReference ==
  /\ [](Releasable => ENABLED ExecutorDtor)
  /\ [][\A c \in Conts :
          (executor = "destroyed" /\ closure[c] # NoState /\ invoked'[c] # invoked[c])
            => /\ queue' = queue
               /\ runs' = runs
               /\ fulfil_count'[closure[c]] = fulfil_count[closure[c]]
               /\ ~aborted'
               /\ executor' = "destroyed"]_vars

C32_Witness ==
  \E c \in Conts :
    /\ executor = "destroyed"
    /\ closure[c] # NoState
    /\ reg[c] # NoState
    /\ invoked[c] = 1
    /\ HasResult(reg[c])
    /\ runs[closure[c]] = 0
    /\ ~HasResult(closure[c])
    /\ queue = <<>>
    /\ ~aborted

\* ---- ScheduleAfter with an invalid future -----------------------------------
\* futures made by promises or already completed, moved so that the source is
\* left without SharedState, ScheduleAfter on them, the fulfilment and the
\* event loop
InvalidNext ==
  \/ PromiseCtor("T")
  \/ \E v \in InputValues : FutureCtor(v)
  \/ \E f \in Futures : FutureMove(f)
  \/ \E t \in Threads, f \in Futures, c \in Conts, v \in InputValues :
       CallScheduleAfter(t, f, c, v)
  \/ \E t \in Threads, s \in States, v \in InputValues : CallPromiseSet(t, s, v)
  \/ LoopRun
  \/ \E t \in Threads : AfterStep(t)

InvalidSpec == Init /\ [][InvalidNext]_vars

\* C33 (under InvalidSpec): a call of ScheduleAfter with a future that holds no
\* SharedState ends in the fatal state in its first step: no promise and no
\* resulting future is made, no continuation is made, registered or called,
\* nothing is scheduled, and the call never returns.
C33_InvalidSource ==
  /\ [][\A t \in Threads :
          (Calls(t, "ScheduleAfter") /\ ~IsValid(self'[t]))
            => /\ aborted'
               /\ pc'[t] = "fatal"
               /\ UNCHANGED <<sharedVars, handleVars, functor, after, closure,
                              owner, reg, invoked, queue, runs>>]_vars
  /\ [][\A t \in Threads :
          (op'[t] = "ScheduleAfter" /\ pc'[t] = "ret" /\ pc[t] # "ret")
            => IsValid(self'[t])]_vars

C33_Witness ==
  \E t \in Threads :
    /\ op[t] = "ScheduleAfter"
    /\ pc[t] = "fatal"
    /\ ~IsValid(self[t])
    /\ aborted
    /\ \A c \in Conts : closure[c] # NoState => after[closure[c]] # NoState

\* ---- the executor destroyed between enqueue and pick-up ---------------------
\* SharedState s was made by Schedule or ScheduleAfter, its action was dropped
\* or never scheduled, and the executor is gone
Dropped(s) ==
  /\ functor[s] # NoValue
  /\ executor = "destroyed"
  /\ runs[s] = 0
  /\ fulfil_count[s] = 0
  /\ ~HasResult(s)
  /\ ~Queued(s)

\* C34 (under AfterSpec): the continuation made by ScheduleAfter looks at the
\* executor in the step in which it is invoked, and only there: it appends its
\* action to the queue when the executor is alive and does nothing otherwise.
\* A functor is called only by the event loop taking its action from the queue
\* of the live executor. When the executor is destroyed while an action is on
\* the queue, the functor of that action has not been called and is never
\* called, and the resulting future is never finished.
C34_CheckedAtInvocation ==
  [][\A s \in States :
       /\ \A c \in Conts :
            (closure[c] = s /\ invoked'[c] # invoked[c])
              => /\ runs' = runs
                 /\ IF executor = "alive"
                    THEN \E x \in Values \cup {NoValue} :
                           queue' = Append(queue, FunctionWrapper(s, x))
                    ELSE queue' = queue
       /\ (functor[s] # NoValue /\ runs'[s] # runs[s]) => LoopRuns(s)
       /\ (Queued(s) /\ runs[s] = 0 /\ executor = "alive" /\ executor' = "destroyed")
            => Dropped(s)'
       /\ Dropped(s) => Dropped(s)']_vars

C34_Witness ==
  \E t \in Threads, s \in States :
    /\ op[t] = "ScheduleAfter" /\ pc[t] = "ret"
    /\ ret[t] = kFutureAlreadyCompleted
    /\ closure[arg[t]] = s /\ after[s] # NoState
    /\ invoked[arg[t]] = 1
    /\ Dropped(s)

\* ---- an executor that no shared_ptr owns -----------------------------------
\* the state after construction, the executor made by std::make_shared or not
OwnerInit ==
  /\ kind = [s \in States |-> "free"]
  /\ result = [s \in States |-> NoValue]
  /\ finished = [s \in States |-> FALSE]
  /\ continuations = [s \in States |-> <<>>]
  /\ mutex = [s \in States |-> NoThread]
  /\ promise = [s \in States |-> "none"]
  /\ handle = [f \in Futures |-> "unborn"]
  /\ shared_state_ = [f \in Futures |-> NoState]
  /\ pc = [t \in Threads |-> "idle"]
  /\ op = [t \in Threads |-> "none"]
  /\ self = [t \in Threads |-> 0]
  /\ arg = [t \in Threads |-> 0]
  /\ ret = [t \in Threads |-> 0]
  /\ drained = [t \in Threads |-> <<>>]
  /\ owner = [c \in Conts |-> "caller"]
  /\ invoked = [c \in Conts |-> 0]
  /\ aborted = FALSE
  /\ calls = 0
  /\ fulfilled_with = [s \in States |-> NoValue]
  /\ fulfil_count = [s \in States |-> 0]
  /\ seen_finished = [s \in States |-> FALSE]
  /\ reg = [c \in Conts |-> NoState]
  /\ waited = [t \in Threads |-> FALSE]
  /\ origin = [f \in Futures |-> [how |-> "none", of |-> 0]]
  /\ executor \in {"alive", "unmanaged"}
  /\ queue = <<>>
  /\ functor = [s \in States |-> NoValue]
  /\ after = [s \in States |-> NoState]
  /\ closure = [c \in Conts |-> NoState]
  /\ runs = [s \in States |-> 0]
  /\ if_success = [s \in States |-> FALSE]
  /\ waitjob = [t \in Threads |-> NoJob]
  /\ observed = [c \in Conts |-> NoValue]
  /\ reply = [c \in Conts |-> NoReply]
  /\ AppInit

\* futures made by promises or already completed, Schedule and ScheduleAfter
\* on the executor, the fulfilment, the event loop and the destruction
OwnerNext ==
  \/ PromiseCtor("T")
  \/ \E v \in InputValues : FutureCtor(v)
  \/ \E t \in Threads, v \in InputValues : CallSchedule(t, v)
  \/ \E t \in Threads, f \in Futures, c \in Conts, v \in InputValues :
       CallScheduleAfter(t, f, c, v)
  \/ \E t \in Threads, s \in States, v \in InputValues : CallPromiseSet(t, s, v)
  \/ ExecutorDtor
  \/ LoopRun
  \/ \E t \in Threads : AfterStep(t)

OwnerSpec == OwnerInit /\ [][OwnerNext]_vars

\* C35 (under OwnerSpec): whenever a continuation made by ScheduleAfter is
\* invoked while the executor object exists, owned by a shared_ptr or not, it
\* schedules its action on the executor.
C35_RunsWheneverExists ==
  [][\A c \in Conts :
       (closure[c] # NoState /\ invoked'[c] # invoked[c] /\ Exists)
         => \E x \in Values \cup {NoValue} :
              queue' = Append(queue, FunctionWrapper(closure[c], x))]_vars

\* the continuation of an executor that exists without a shared owner was
\* invoked, in ScheduleAfter itself or by the fulfilment of the source: nothing
\* was scheduled, the functor is not called, the resulting future not finished
C35_Lost ==
  \E c \in Conts :
    /\ executor = "unmanaged"
    /\ closure[c] # NoState
    /\ invoked[c] = 1
    /\ queue = <<>>
    /\ runs[closure[c]] = 0
    /\ ~HasResult(closure[c])
    /\ \A s \in States : functor[s] # NoValue => s = closure[c]

\* ---- the order of the continuations of one future --------------------------
\* executor->ScheduleAfter(f, functor); as a statement: the future it returns
\* is a temporary that is destroyed when the call returns, so no handle of it
\* is kept. The promise in the continuation keeps the SharedState.
ScheduleAfterDiscarded(t, f, c, v) ==
  /\ Exists
  /\ handle[f] = "live"
  /\ Unused(c)
  /\ \A d \in 1..(c - 1) : ~Unused(d)
  /\ IsValid(f) => FreshState # 0
  /\ IF ~IsValid(f)
     THEN /\ aborted' = TRUE
          /\ Goto(t, "fatal")
          /\ UNCHANGED <<kind, promise, functor, after, closure>>
     ELSE /\ Goto(t, "register_check")
          /\ kind' = [kind EXCEPT ![FreshState] = "T"]
          /\ promise' = [promise EXCEPT ![FreshState] = "captured"]
          /\ functor' = [functor EXCEPT ![FreshState] = v]
          /\ after' = [after EXCEPT ![FreshState] = shared_state_[f]]
          /\ closure' = [closure EXCEPT ![c] = FreshState]
          /\ UNCHANGED aborted
  /\ UNCHANGED <<result, finished, continuations, mutex, handle, shared_state_,
                 drained, owner, invoked, fulfilled_with, fulfil_count,
                 seen_finished, reg, origin, executor, queue, runs>>
  /\ UNCHANGED <<moreVars, contVars>>

CallScheduleAfterDiscarded(t, f, c, v) ==
  /\ Enter(t, "ScheduleAfter", f, c)
  /\ ScheduleAfterDiscarded(t, f, c, v)

\* futures made by promises, ScheduleAfter on them with the returned future
\* dropped, the fulfilment by producers that set their promise once, and the
\* event loop
OrderNext ==
  \/ PromiseCtor("T")
  \/ \E t \in Threads, f \in Futures, c \in Conts, v \in InputValues :
       CallScheduleAfterDiscarded(t, f, c, v)
  \/ \E t \in Threads, s \in States, v \in InputValues :
       Unset(s) /\ CallPromiseSet(t, s, v)
  \/ LoopRun
  \/ \E t \in Threads : AfterStep(t)

OrderSpec == Init /\ [][OrderNext]_vars

\* SharedState x was made by a ScheduleAfter whose continuation was stored in
\* SharedState s
StoredOn(x, s) ==
  IF x = NoState THEN FALSE
  ELSE after[x] = s /\ \E c \in Conts : closure[c] = x /\ reg[c] = s

\* the SharedStates of the ScheduleAfter calls whose continuations were stored
\* in SharedState s and whose functors have not been called, oldest first:
\* those whose actions are on the queue, those whose continuations the
\* fulfilling thread has taken out and not yet invoked, those still stored
Line(s) ==
  LET OfS(x) == StoredOn(x, s)
      T == {t \in Threads : op[t] = "Set" /\ self[t] = s /\ pc[t] = "set_invoke"}
      d == IF T = {} THEN <<>> ELSE drained[CHOOSE t \in T : TRUE]
  IN SelectSeq([i \in 1..Len(queue) |-> queue[i].promise], OfS)
       \o SelectSeq([i \in 1..Len(d) |-> closure[d[i]]], OfS)
       \o SelectSeq([i \in 1..Len(continuations[s]) |-> closure[continuations[s][i]]], OfS)

\* C36 (under OrderSpec): the ScheduleAfter continuations stored in one
\* unfulfilled SharedState form a first-in first-out line: a registration
\* adds its SharedState at the end, the fulfilment and the invocations, which
\* put the actions on the queue, keep the order, and the line only loses its
\* head, in a step of the event loop that calls the functor of that head. So
\* the actions are scheduled and the functors called in registration order.
C36_RegistrationOrder ==
  [][\A s \in States :
       \/ Line(s)' = Line(s)
       \/ /\ ~HasResult(s)
          /\ \E t \in Threads :
               /\ pc[t] = "register_emplace" /\ St(t) = s
               /\ Line(s)' = Append(Line(s), closure[arg[t]])
       \/ /\ Line(s) # <<>>
          /\ Line(s)' = Tail(Line(s))
          /\ LoopRuns(Head(Line(s)))
          /\ runs'[Head(Line(s))] = runs[Head(Line(s))] + 1]_vars

C36_Witness ==
  \E s \in States, c, d \in Conts :
    /\ c # d
    /\ reg[c] = s /\ reg[d] = s
    /\ closure[c] # NoState /\ closure[d] # NoState
    /\ runs[closure[c]] = 1
    /\ runs[closure[d]] = 0
    /\ Line(s) = <<closure[d]>>
    /\ queue = <<FunctionWrapper(closure[d], result[s])>>

\* ---- TrySchedule ------------------------------------------------------------
\* C37 (under LifeSpec): a call of TrySchedule whose weak_ptr has expired
\* returns std::nullopt in one step, makes no promise and no future, schedules
\* nothing, calls no functor and is not fatal; a call whose weak_ptr gives the
\* executor is the step of Schedule: it makes one promise holding the functor,
\* appends exactly one action for it to the queue, calls no functor and
\* returns the future of that promise.
C37_TrySchedule ==
  [][\A t \in Threads :
       (Free(t) /\ Moves(t) /\ op'[t] \in {"TrySchedule", "Schedule"})
         => IF executor = "alive"
            THEN /\ op'[t] = "Schedule"
                 /\ pc'[t] = "ret"
                 /\ runs' = runs
                 /\ Len(queue') = Len(queue) + 1
                 /\ \E s \in States :
                      /\ functor[s] = NoValue /\ functor'[s] = arg'[t]
                      /\ \A r \in States \ {s} : functor'[r] = functor[r]
                      /\ queue' = Append(queue, FunctionWrapper(s, NoValue))
                      /\ ret'[t] \in Futures
                      /\ handle'[ret'[t]] = "live"
                      /\ shared_state_'[ret'[t]] = s
            ELSE /\ op'[t] = "TrySchedule"
                 /\ pc'[t] = "ret"
                 /\ ret'[t] = NoFuture
                 /\ ~aborted'
                 /\ UNCHANGED <<sharedVars, handleVars, execVars>>]_vars

C37_Witness ==
  \E t, u \in Threads, s \in States :
    /\ op[t] = "TrySchedule" /\ pc[t] = "ret" /\ ret[t] = NoFuture
    /\ executor = "shutting_down"
    /\ op[u] = "Schedule" /\ pc[u] = "ret"
    /\ ret[u] \in Futures
    /\ shared_state_[ret[u]] = s
    /\ queue = <<FunctionWrapper(s, NoValue)>>
    /\ runs[s] = 0

\* ---- OrbitApp::OnCaptureStarted ---------------------------------------------
\* what the handlers of OrbitApp leave alone: the futures, the promises and
\* the tasks of the executor that return one
futureVars == <<sharedVars, mutex, handleVars, threadVars, owner, invoked,
                histVars, queue, functor, after, closure, runs, if_success,
                waitjob, contVars>>

\* the main thread is neither inside an action of OrbitApp nor suspended in
\* OnCaptureStarted
MainThreadFree ==
  /\ main_pc = NoAction
  /\ app_pc[MainThread] \notin {"scheduled", "await"}

\* thread t calls OnCaptureStarted: absl::MutexLock mutex_lock(&mutex);
\* initialization_complete = false; main_thread_executor_->Schedule(action)
OnCaptureStarted(t) ==
  /\ ~aborted
  /\ calls < MaxCalls
  /\ calls' = calls + 1
  /\ Exists
  /\ app_pc[t] = "idle"
  /\ t # MainThread => \A u \in 1..(t - 1) : app_pc[u] # "idle"
  /\ t = MainThread => main_pc = NoAction
  /\ capture_mutex' = [capture_mutex EXCEPT ![t] = t]
  /\ initialization_complete' = [initialization_complete EXCEPT ![t] = FALSE]
  /\ actions' = Append(actions, [name |-> "init", of |-> t])
  /\ app_pc' = [app_pc EXCEPT ![t] = "scheduled"]
  /\ UNCHANGED <<futureVars, aborted, executor, main_pc, loadVars, cancelVars>>

\* mutex.Await(absl::Condition(IsTrue, &initialization_complete)): returns
\* when the condition holds, else releases the mutex and suspends the thread
OnCaptureStartedAwait(t) ==
  /\ ~aborted
  /\ app_pc[t] = "scheduled"
  /\ app_pc' = [app_pc EXCEPT ![t] =
                  IF initialization_complete[t] THEN "done" ELSE "await"]
  /\ capture_mutex' = [capture_mutex EXCEPT ![t] = NoThread]
  /\ UNCHANGED <<futureVars, aborted, calls, executor, initialization_complete,
                 actions, main_pc, loadVars, cancelVars>>

\* the condition holds and the mutex is free: Await takes the mutex again and
\* returns, OnCaptureStarted returns and releases the mutex
OnCaptureStartedReturn(t) ==
  /\ ~aborted
  /\ app_pc[t] = "await"
  /\ initialization_complete[t]
  /\ capture_mutex[t] = NoThread
  /\ app_pc' = [app_pc EXCEPT ![t] = "done"]
  /\ UNCHANGED <<futureVars, aborted, calls, executor, capture_mutex,
                 initialization_complete, actions, main_pc, loadVars, cancelVars>>

\* the event loop of the main thread picks up the action of OnCaptureStarted:
\* the capture data is set up, the callbacks are called, and the action comes
\* to absl::MutexLock lock(&mutex)
MainRunInit ==
  /\ ~aborted
  /\ Exists
  /\ MainThreadFree
  /\ actions # <<>>
  /\ Head(actions).name = "init"
  /\ actions' = Tail(actions)
  /\ main_pc' = Head(actions)
  /\ UNCHANGED <<futureVars, aborted, calls, executor, captureVars, loadVars,
                 cancelVars>>

\* absl::MutexLock lock(&mutex); initialization_complete = true;
InitializationComplete ==
  /\ ~aborted
  /\ main_pc.name = "init"
  /\ capture_mutex[main_pc.of] = NoThread
  /\ initialization_complete' = [initialization_complete EXCEPT ![main_pc.of] = TRUE]
  /\ main_pc' = NoAction
  /\ UNCHANGED <<futureVars, aborted, calls, executor, app_pc, capture_mutex,
                 actions, loadVars, cancelVars>>

\* ---- OrbitApp::OnLoadCapture, OnLoadCaptureCancelRequested -------------------
\* OnLoadCapture(file_name), on the main thread: thread_pool_->Schedule(task)
OnLoadCapture ==
  /\ ~aborted
  /\ calls < MaxCalls
  /\ calls' = calls + 1
  /\ MainThreadFree
  /\ load_pc \in {"idle", "cancelled", "loaded"}
  /\ load_pc' = "scheduled"
  /\ cancel_pending' = FALSE
  /\ UNCHANGED <<futureVars, aborted, executor, captureVars, actions, main_pc,
                 loadVars, capture_loading_cancellation_requested_>>

\* a thread of the pool starts the task:
\* capture_loading_cancellation_requested_ = false; capture_deserializer::Load(...)
LoadTaskStart ==
  /\ ~aborted
  /\ load_pc = "scheduled"
  /\ capture_loading_cancellation_requested_' = FALSE
  /\ load_pc' = "loading"
  /\ UNCHANGED <<futureVars, aborted, calls, executor, captureVars, actions,
                 main_pc, loadVars, cancel_pending>>

\* capture_deserializer::Load reads the flag it was given a pointer to: it
\* stops when the flag is set and else goes on to the end of the file
LoadTaskStep ==
  /\ ~aborted
  /\ load_pc = "loading"
  /\ load_pc' = IF capture_loading_cancellation_requested_ THEN "cancelled" ELSE "loaded"
  /\ UNCHANGED <<futureVars, aborted, calls, executor, captureVars, actions,
                 main_pc, loadVars, capture_loading_cancellation_requested_,
                 cancel_pending>>

\* OnLoadCaptureCancelRequested(), on the main thread, while the capture that
\* OnLoadCapture asked for is not loaded
OnLoadCaptureCancelRequested ==
  /\ ~aborted
  /\ calls < MaxCalls
  /\ calls' = calls + 1
  /\ MainThreadFree
  /\ load_pc \in {"scheduled", "loading"}
  /\ capture_loading_cancellation_requested_' = TRUE
  /\ cancel_pending' = TRUE
  /\ UNCHANGED <<futureVars, aborted, executor, captureVars, actions, main_pc,
                 loadVars, load_pc>>

\* captures are started from any thread and loaded from files, loads are
\* cancelled, the main thread runs its actions, and the executor is destroyed
\* at any moment
CaptureNext ==
  \/ \E t \in Threads : OnCaptureStarted(t)
  \/ \E t \in Threads : OnCaptureStartedAwait(t)
  \/ \E t \in Threads : OnCaptureStartedReturn(t)
  \/ MainRunInit
  \/ InitializationComplete
  \/ OnLoadCapture
  \/ LoadTaskStart
  \/ LoadTaskStep
  \/ OnLoadCaptureCancelRequested
  \/ ExecutorDtor

CaptureSpec == Init /\ [][CaptureNext]_vars

\* the action that OnCaptureStarted of thread t scheduled can still set the
\* flag: the main thread is inside it, or it is on the queue of an executor
\* whose event loop can pick it up
InitializationCanComplete(t) ==
  \/ main_pc = [name |-> "init", of |-> t]
  \/ /\ \E i \in 1..Len(actions) : actions[i] = [name |-> "init", of |-> t]
     /\ Exists
     /\ app_pc[MainThread] \notin {"scheduled", "await"}

\* C38 (under CaptureSpec): OnCaptureStarted returns only after the action it
\* scheduled has set initialization_complete, and a thread that is inside
\* OnCaptureStarted is never blocked forever: the flag is set, or the action
\* can still be run and set it.
C38_ReturnsAfterInitialization ==
  \A t \in Threads :
    /\ app_pc[t] = "done" => initialization_complete[t]
    /\ app_pc[t] \in {"scheduled", "await"}
         => (initialization_complete[t] \/ InitializationCanComplete(t))

\* OnCaptureStarted was called on a thread other than the main thread, the
\* executor was destroyed before the event loop picked up the action, and the
\* caller is suspended in Await
C38_Stuck ==
  \E t \in Threads \ {MainThread} :
    /\ app_pc[t] = "await"
    /\ executor = "destroyed"
    /\ ~initialization_complete[t]
    /\ main_pc = NoAction
    /\ capture_mutex[t] = NoThread

\* C40 (under CaptureSpec): while the capture that OnLoadCapture asked for is
\* scheduled or being loaded, a cancellation requested after OnLoadCapture
\* returned stays in capture_loading_cancellation_requested_, where the
\* loading task reads it: the reset at the start of the task does not erase it.
C40_CancellationKept ==
  (cancel_pending /\ load_pc \in {"scheduled", "loading"})
    => capture_loading_cancellation_requested_

\* the cancellation was requested before the pool started the task, the task
\* reset the flag and loaded the capture to the end
C40_Lost ==
  /\ cancel_pending
  /\ load_pc = "loaded"
  /\ ~capture_loading_cancellation_requested_

\* ---- OrbitApp::LoadModules, LoadModuleOnRemote, LoadSymbols ------------------
\* thread_pool_->Schedule(task) and the pool taking one task
PoolSchedule(k) == [pool EXCEPT ![k] = @ + 1]
PoolTake(k) == [pool EXCEPT ![k] = @ - 1]

\* LoadModules as it would be without the test
\* modules_currently_loading_.contains(module->file_path())
LoadModules_NoCheck(m, found, remote) ==
  /\ ~aborted
  /\ calls < MaxCalls
  /\ calls' = calls + 1
  /\ Exists
  /\ MainThreadFree
  /\ IF found
     THEN /\ modules_currently_loading_' = modules_currently_loading_ \cup {m}
          /\ pool' = PoolSchedule(<<"load_symbols", m>>)
          /\ UNCHANGED actions
     ELSE IF remote
     THEN /\ modules_currently_loading_' = modules_currently_loading_ \cup {m}
          /\ pool' = PoolSchedule(<<"find_remote", m>>)
          /\ UNCHANGED actions
     ELSE /\ actions' = Append(actions, [name |-> "error", of |-> m])
          /\ modules_currently_loading_' = modules_currently_loading_ \ {m}
          /\ UNCHANGED pool
  /\ UNCHANGED <<futureVars, aborted, executor, captureVars, main_pc, cancelVars>>

\* LoadModules({module}, ...) on the main thread, for module m: found tells
\* whether FindSymbolsLocally finds a file, remote whether a remote lookup is
\* attempted (!FLAGS_local && GetProcessManager() != nullptr)
LoadModules(m, found, remote) ==
  /\ ~aborted
  /\ calls < MaxCalls
  /\ calls' = calls + 1
  /\ Exists
  /\ MainThreadFree
  /\ IF m \in modules_currently_loading_
     THEN UNCHANGED <<modules_currently_loading_, pool, actions>>
     ELSE IF found
     THEN /\ modules_currently_loading_' = modules_currently_loading_ \cup {m}
          /\ pool' = PoolSchedule(<<"load_symbols", m>>)
          /\ UNCHANGED actions
     ELSE IF remote
     THEN /\ modules_currently_loading_' = modules_currently_loading_ \cup {m}
          /\ pool' = PoolSchedule(<<"find_remote", m>>)
          /\ UNCHANGED actions
     ELSE /\ actions' = Append(actions, [name |-> "error", of |-> m])
          /\ UNCHANGED <<modules_currently_loading_, pool>>
  /\ UNCHANGED <<futureVars, aborted, executor, captureVars, main_pc, cancelVars>>

\* a thread of the pool runs the task of LoadSymbols for module m:
\* CHECK(symbols_result); then main_thread_executor.lock() and, unless it is
\* null, Schedule of the action that erases the path
PoolLoadSymbols(m, loaded) ==
  /\ ~aborted
  /\ pool[<<"load_symbols", m>>] > 0
  /\ pool' = PoolTake(<<"load_symbols", m>>)
  /\ IF ~loaded
     THEN aborted' = TRUE /\ UNCHANGED actions
     ELSE /\ UNCHANGED aborted
          /\ IF executor = "alive"
             THEN actions' = Append(actions, [name |-> "loaded", of |-> m])
             ELSE UNCHANGED actions
  /\ UNCHANGED <<futureVars, calls, executor, captureVars, main_pc,
                 modules_currently_loading_, cancelVars>>

\* a thread of the pool runs the task of LoadModuleOnRemote for module m:
\* FindDebugInfoFile, then main_thread_executor_->Schedule of the error message
\* and of the erasure, or of the action that copies the file. The executor is
\* dereferenced without a test: with the executor destroyed the behaviour is
\* undefined, the process ends or the call has no effect.
PoolFindRemote(m, found) ==
  /\ ~aborted
  /\ pool[<<"find_remote", m>>] > 0
  /\ pool' = PoolTake(<<"find_remote", m>>)
  /\ IF Exists
     THEN /\ actions' = IF found
                        THEN Append(actions, [name |-> "copy", of |-> m])
                        ELSE actions \o <<[name |-> "error", of |-> m],
                                          [name |-> "erase", of |-> m]>>
          /\ UNCHANGED aborted
     ELSE /\ aborted' \in BOOLEAN
          /\ UNCHANGED actions
  /\ UNCHANGED <<futureVars, calls, executor, captureVars, main_pc,
                 modules_currently_loading_, cancelVars>>

\* the event loop of the main thread picks up an action of the symbol loading:
\* the error message; the erasure of the path; the copy from the remote, which
\* erases the path when it fails and calls LoadSymbols when it succeeds; the
\* action LoadSymbols ends with, which erases the path
MainRunLoad(copied) ==
  /\ ~aborted
  /\ Exists
  /\ MainThreadFree
  /\ actions # <<>>
  /\ Head(actions).name \in {"error", "erase", "copy", "loaded"}
  /\ Head(actions).name # "copy" => copied
  /\ LET a == Head(actions)
     IN CASE a.name = "error" ->
               /\ actions' = Tail(actions)
               /\ UNCHANGED <<modules_currently_loading_, pool>>
          [] a.name \in {"erase", "loaded"} ->
               /\ actions' = Tail(actions)
               /\ modules_currently_loading_' = modules_currently_loading_ \ {a.of}
               /\ UNCHANGED pool
          [] a.name = "copy" /\ copied ->
               /\ actions' = Tail(actions)
               /\ pool' = PoolSchedule(<<"load_symbols", a.of>>)
               /\ UNCHANGED modules_currently_loading_
          [] a.name = "copy" /\ ~copied ->
               /\ actions' = Append(Tail(actions), [name |-> "error", of |-> a.of])
               /\ modules_currently_loading_' = modules_currently_loading_ \ {a.of}
               /\ UNCHANGED pool
  /\ UNCHANGED <<futureVars, aborted, calls, executor, captureVars, main_pc,
                 cancelVars>>

\* a step of a thread of the pool, a step of the event loop
PoolStep ==
  \/ \E m \in Modules, loaded \in BOOLEAN : PoolLoadSymbols(m, loaded)
  \/ \E m \in Modules, found \in BOOLEAN : PoolFindRemote(m, found)

MainStep == \E copied \in BOOLEAN : MainRunLoad(copied)

\* modules are loaded at any moment, the pool and the event loop run what is
\* scheduled on them, and the executor is destroyed at any moment
LoadNext ==
  \/ \E m \in Modules, found, remote \in BOOLEAN : LoadModules(m, found, remote)
  \/ PoolStep
  \/ MainStep
  \/ ExecutorDtor

LoadSpec ==
  /\ Init
  /\ [][LoadNext]_vars
  /\ WF_vars(PoolStep)
  /\ WF_vars(MainStep)

\* the number of loads of module m in flight: tasks waiting in the pool and
\* actions waiting on the main thread that will erase the path or go on
InFlightLoads(m) ==
  pool[<<"load_symbols", m>>] + pool[<<"find_remote", m>>]
    + Cardinality({i \in 1..Len(actions) :
                     actions[i].of = m /\ actions[i].name \in {"erase", "copy", "loaded"}})

\* C39 (under LoadSpec): at most one load of a module is in flight, and its
\* path is in modules_currently_loading_ while it is; no step, a further call
\* of LoadModules included, starts a load for a module whose path is in the
\* set; and a path in the set is eventually erased again, unless the
\* executor is destroyed or CHECK(symbols_result) ends the process.
C39_OneLoadPerModule ==
  /\ [](\A m \in Modules :
          /\ InFlightLoads(m) <= 1
          /\ InFlightLoads(m) = 1 => m \in modules_currently_loading_)
  /\ [][\A m \in Modules :
          m \in modules_currently_loading_ => InFlightLoads(m)' <= InFlightLoads(m)]_vars
  /\ \A m \in Modules :
       (m \in modules_currently_loading_)
         ~> (m \notin modules_currently_loading_ \/ executor # "alive" \/ aborted)

C39_Witness ==
  \E m \in Modules :
    /\ calls = 2
    /\ executor = "alive"
    /\ ~aborted
    /\ modules_currently_loading_ = {m}
    /\ actions = <<[name |-> "copy", of |-> m]>>
    /\ InFlightLoads(m) = 1

====
